---------------------------- MODULE Spec2Model ----------------------------
(***************************************************************************)
(* LMOxide client: the retrying request executor (client.rs), the          *)
(* chat-completion SSE adapter (streaming.rs) and the download-progress    *)
(* SSE adapter (download.rs), as state machines.                           *)
(*                                                                         *)
(* Text is a sequence of bytes; a byte is a one-character string, except   *)
(* the bytes of the two-byte UTF-8 character U+00E9, written "xC3" (lead)  *)
(* and "xA9" (continuation), and the replacement character U+FFFD that     *)
(* from_utf8_lossy inserts, written "xFFFD".                               *)
(*                                                                         *)
(* Three specifications share the variables: SpecRequest runs one call of  *)
(* make_request, SpecChat one chat-completion stream, SpecDownload one     *)
(* download-progress stream.  Spec runs one call of any of the three.      *)
(* SpecConcurrent runs two calls of make_request, or two download-progress *)
(* streams, side by side on one client.  SpecBuilder drives one            *)
(* ChatRequestBuilder (models.rs), SpecParsers calls parse_sse_buffer and  *)
(* parse_sse_event on one text.  SpecHeaders follows the headers of the    *)
(* requests of one client.                                                 *)
(***************************************************************************)
EXTENDS Integers, Sequences, FiniteSets, TLC

VARIABLES
    config,      \* ClientConfig of the client: max_retries, retry_delay
    rq_pc,       \* make_request: "idle" | "send" | "sleep" | "done"
    retries,     \* make_request: the local  let mut retries
    outcomes,    \* make_request: what the transport answered, per attempt
    sleeps,      \* make_request: the delays slept, in order
    diag,        \* make_request: the warn! records emitted, in order
    result,      \* make_request: None, or the ClientResult returned
    st_pc,       \* make_request_stream: "idle" | "send" | "open" | "failed"
    st_outcomes, \* make_request_stream: what the transport answered, per attempt
    st_result,   \* make_request_stream: None, or the ClientResult returned
    ch_mode,     \* how the caller consumes the stream: "next" | "collect" | "collect_text"
    ch_wire,     \* the bytes of the response body
    ch_pos,      \* how many of them the transport has delivered
    ch_tr,       \* the body stream: "live" | "ended"
    ch_pc,       \* the consumer: "idle" | "pulling" | "returned"
    items,       \* the items the ChatCompletionStream has yielded, in order
    chunks,      \* collect: the local  let mut chunks
    text,        \* collect_text: the local  let mut text
    ch_result,   \* None, or what collect / collect_text returned
    dl_pc,       \* into_stream: "idle" | "start" | "recv" | "scan" | "done"
    dl_outcomes, \* into_stream: what the transport answered, per request requests
    dl_wire,     \* the bytes of the response body
    dl_pos,      \* how many of them the transport has delivered
    dl_tr,       \* the body stream: "live" | "ended"
    dl_error,    \* the error the body stream raised: "" for none, or its kind
    buffer,      \* into_stream: the local  let mut buffer
    received,    \* all the text pushed to the buffer so far
    records,     \* the event_data texts taken out of the buffer, in order
    yielded,     \* the items the download stream has yielded, in order
    calls,       \* the calls of make_request that run concurrently, each
                 \* with its own locals
    streams,     \* the download-progress streams that run concurrently,
                 \* each with its own locals
    builder,     \* a ChatRequestBuilder: its fields
    built,       \* None, or the ChatCompletionRequest build() returned
    script,      \* the builder methods called so far, in order
    probe,       \* one call of a parsing function: its name, its argument
                 \* and, once it has returned, its result
    client,      \* the LmoClient: its api_key and the default headers of
                 \* its reqwest::Client
    requests     \* the requests handed to the transport, in order: who
                 \* built each and the headers it carries

reqVars == <<rq_pc, retries, outcomes, sleeps, diag, result>>
stVars == <<st_pc, st_outcomes, st_result>>
dlVars == <<dl_pc, dl_outcomes, dl_wire, dl_pos, dl_tr, dl_error, buffer, received, records, yielded>>
concVars == <<calls, streams>>
netVars == <<client, requests>>
libVars == <<builder, built, script, probe, netVars>>
chVars == <<ch_mode, ch_wire, ch_pos, ch_tr, ch_pc, items, chunks, text, ch_result>>

-----------------------------------------------------------------------------
(* Bounds of the model *)

MaxRetriesBound == 3
MaxDelayBound == 2
MaxChatChunks == 2
MaxRecords == 2
MaxBuilderCalls == 3
MaxPieces == 3
MaxRequests == 3

-----------------------------------------------------------------------------
(* Values *)

None == [tag |-> "None"]

\* HTTP status codes the transport may answer with: the edges of 2xx and
\* 5xx, and the codes from_response names.
Statuses == {200, 299, 300, 401, 403, 404, 499, 500, 503, 599, 600}

\* What reading the body of an error response gives: a text, or a failure.
Bodies == {[ok |-> TRUE, text |-> "overloaded"], [ok |-> FALSE, text |-> ""]}

\* The reqwest::Error kinds send() may fail with.
Causes == {"connect", "timeout", "request"}

Response(s, b) == [kind |-> "response", status |-> s, body |-> b, cause |-> ""]
TransportErr(c) == [kind |-> "error", status |-> 0,
                    body |-> [ok |-> FALSE, text |-> ""], cause |-> c]

\* Everything one send().await can come back with.
SendOutcomes ==
    {Response(s, b) : s \in Statuses, b \in Bodies}
        \cup {TransportErr(c) : c \in Causes}

\* ClientError values.
ServerError(s, m) ==
    [variant |-> "ServerError", status |-> s, message |-> m, cause |-> ""]
AuthenticationError(m) ==
    [variant |-> "AuthenticationError", status |-> 0, message |-> m, cause |-> ""]
ModelNotFound(m) ==
    [variant |-> "ModelNotFound", status |-> 0, message |-> m, cause |-> ""]
HttpError(c) ==
    [variant |-> "HttpError", status |-> 0, message |-> "", cause |-> c]

Ok(v) == [tag |-> "Ok", val |-> v]
Err(e) == [tag |-> "Err", val |-> e]

-----------------------------------------------------------------------------
(* error.rs *)

\* StatusCode::is_success
is_success(status) == status >= 200 /\ status <= 299

\* A classification that knows 401 only as an authentication failure
from_response_403Generic(status, message) ==
    CASE status = 401 -> AuthenticationError(message)
      [] status = 404 -> ModelNotFound(message)
      [] OTHER -> ServerError(status, message)

from_response(status, message) ==
    CASE status \in {401, 403} -> AuthenticationError(message)
      [] status = 404 -> ModelNotFound(message)
      [] OTHER -> ServerError(status, message)

\* A classification that takes every ServerError for transient
is_retryable_AnyServerError(error) ==
    CASE error.variant = "HttpError" -> error.cause \in {"timeout", "connect"}
      [] error.variant = "ServerError" -> TRUE
      [] error.variant \in {"TimeoutError", "NetworkError"} -> TRUE
      [] OTHER -> FALSE

\* A classification that takes every transport error for transient
is_retryable_AnyHttpError(error) ==
    CASE error.variant = "HttpError" -> TRUE
      [] error.variant = "ServerError" ->
            error.status >= 500 /\ error.status <= 599
      [] error.variant \in {"TimeoutError", "NetworkError"} -> TRUE
      [] OTHER -> FALSE

\* A classification with the lower edge of 5xx one up
is_retryable_From501(error) ==
    CASE error.variant = "HttpError" -> error.cause \in {"timeout", "connect"}
      [] error.variant = "ServerError" ->
            error.status > 500 /\ error.status <= 599
      [] error.variant \in {"TimeoutError", "NetworkError"} -> TRUE
      [] OTHER -> FALSE

is_retryable(error) ==
    CASE error.variant = "HttpError" -> error.cause \in {"timeout", "connect"}
      [] error.variant = "ServerError" ->
            error.status >= 500 /\ error.status <= 599
      [] error.variant \in {"TimeoutError", "NetworkError"} -> TRUE
      [] OTHER -> FALSE

\* response.text().await.unwrap_or_else(|_| "Unknown error".to_string())
error_body(body) == IF body.ok THEN body.text ELSE "Unknown error"

-----------------------------------------------------------------------------
(* client.rs: make_request *)

\* The error of a failed attempt: a classified response, or HttpError(e).
AttemptError(o) ==
    IF o.kind = "response"
    THEN from_response(o.status, error_body(o.body))
    ELSE HttpError(o.cause)

\* The test with the bound one short, and with the bound one over
ShouldRetry_OneShort(error, n) ==
    is_retryable(error) /\ n + 1 < config.max_retries

ShouldRetry_OneOver(error, n) ==
    is_retryable(error) /\ n <= config.max_retries

\* if error.is_retryable() && retries < self.config.max_retries
ShouldRetry(error, n) == is_retryable(error) /\ n < config.max_retries

\* A loop whose delay grows with the number of the attempt
SendAttempt_Backoff(o) ==
    /\ rq_pc = "send"
    /\ outcomes' = Append(outcomes, o)
    /\ IF o.kind = "response" /\ is_success(o.status)
       THEN /\ result' = Ok(o.status)
            /\ rq_pc' = "done"
            /\ UNCHANGED <<retries, sleeps, diag>>
       ELSE LET error == AttemptError(o) IN
            IF ShouldRetry(error, retries)
            THEN /\ diag' = Append(diag, [attempt |-> retries + 1, error |-> error])
                 /\ retries' = retries + 1
                 /\ sleeps' = Append(sleeps, config.retry_delay * (retries + 1))
                 /\ rq_pc' = "sleep"
                 /\ UNCHANGED result
            ELSE /\ result' = Err(error)
                 /\ rq_pc' = "done"
                 /\ UNCHANGED <<retries, sleeps, diag>>
    /\ UNCHANGED <<config, concVars, libVars, stVars, chVars, dlVars>>

\* A loop that logs the failure it returns as well
SendAttempt_LogsEveryFailure(o) ==
    /\ rq_pc = "send"
    /\ outcomes' = Append(outcomes, o)
    /\ IF o.kind = "response" /\ is_success(o.status)
       THEN /\ result' = Ok(o.status)
            /\ rq_pc' = "done"
            /\ UNCHANGED <<retries, sleeps, diag>>
       ELSE LET error == AttemptError(o) IN
            IF ShouldRetry(error, retries)
            THEN /\ diag' = Append(diag, [attempt |-> retries + 1, error |-> error])
                 /\ retries' = retries + 1
                 /\ sleeps' = Append(sleeps, config.retry_delay)
                 /\ rq_pc' = "sleep"
                 /\ UNCHANGED result
            ELSE /\ result' = Err(error)
                 /\ rq_pc' = "done"
                 /\ diag' = Append(diag, [attempt |-> retries + 1, error |-> error])
                 /\ UNCHANGED <<retries, sleeps>>
    /\ UNCHANGED <<config, concVars, libVars, stVars, chVars, dlVars>>

\* A loop that returns the error of its first attempt
SendAttempt_FirstError(o) ==
    /\ rq_pc = "send"
    /\ outcomes' = Append(outcomes, o)
    /\ IF o.kind = "response" /\ is_success(o.status)
       THEN /\ result' = Ok(o.status)
            /\ rq_pc' = "done"
            /\ UNCHANGED <<retries, sleeps, diag>>
       ELSE LET error == AttemptError(o) IN
            IF ShouldRetry(error, retries)
            THEN /\ diag' = Append(diag, [attempt |-> retries + 1, error |-> error])
                 /\ retries' = retries + 1
                 /\ sleeps' = Append(sleeps, config.retry_delay)
                 /\ rq_pc' = "sleep"
                 /\ UNCHANGED result
            ELSE /\ result' = Err(AttemptError(outcomes'[1]))
                 /\ rq_pc' = "done"
                 /\ UNCHANGED <<retries, sleeps, diag>>
    /\ UNCHANGED <<config, concVars, libVars, stVars, chVars, dlVars>>

\* One pass of the loop body: the request is requests and its outcome handled.
SendAttempt(o) ==
    /\ rq_pc = "send"
    /\ outcomes' = Append(outcomes, o)
    /\ IF o.kind = "response" /\ is_success(o.status)
       THEN /\ result' = Ok(o.status)
            /\ rq_pc' = "done"
            /\ UNCHANGED <<retries, sleeps, diag>>
       ELSE LET error == AttemptError(o) IN
            IF ShouldRetry(error, retries)
            THEN /\ diag' = Append(diag, [attempt |-> retries + 1, error |-> error])
                 /\ retries' = retries + 1
                 /\ sleeps' = Append(sleeps, config.retry_delay)
                 /\ rq_pc' = "sleep"
                 /\ UNCHANGED result
            ELSE /\ result' = Err(error)
                 /\ rq_pc' = "done"
                 /\ UNCHANGED <<retries, sleeps, diag>>
    /\ UNCHANGED <<config, concVars, libVars, stVars, chVars, dlVars>>

\* A sleep that does not end
WakeUp_NeverWakes ==
    /\ rq_pc = "sleep"
    /\ rq_pc' = "sleep"
    /\ UNCHANGED <<config, concVars, libVars, retries, outcomes, sleeps, diag, result>>
    /\ UNCHANGED <<stVars, chVars, dlVars>>

\* tokio::time::sleep(retry_delay) completes; continue
WakeUp ==
    /\ rq_pc = "sleep"
    /\ rq_pc' = "send"
    /\ UNCHANGED <<config, concVars, libVars, retries, outcomes, sleeps, diag, result>>
    /\ UNCHANGED <<stVars, chVars, dlVars>>

RequestNext ==
    \/ \E o \in SendOutcomes : SendAttempt(o)
    \/ WakeUp

-----------------------------------------------------------------------------
(* Text: the str and String operations the adapters use *)

NL == "\n"

\* char::is_whitespace, for the bytes of the model
IsWhitespace(b) == b \in {" ", "\t", "\n", "\r"}

\* str::trim_start
RECURSIVE TrimStart(_)
TrimStart(s) ==
    IF s # <<>> /\ IsWhitespace(Head(s)) THEN TrimStart(Tail(s)) ELSE s

\* str::trim_end
RECURSIVE TrimEnd(_)
TrimEnd(s) ==
    IF s # <<>> /\ IsWhitespace(s[Len(s)])
    THEN TrimEnd(SubSeq(s, 1, Len(s) - 1))
    ELSE s

\* str::trim
Trim(s) == TrimEnd(TrimStart(s))

\* str::starts_with
StartsWith(s, p) == Len(s) >= Len(p) /\ SubSeq(s, 1, Len(p)) = p

\* str::ends_with
EndsWith(s, p) ==
    Len(s) >= Len(p) /\ SubSeq(s, Len(s) - Len(p) + 1, Len(s)) = p

\* &s[n..]
From(s, n) == SubSeq(s, n + 1, Len(s))

\* str::find(pat) searched from byte offset i (0-based): the offset of the
\* first match at or after i, or -1 for Option::None
RECURSIVE FindFrom(_, _, _)
FindFrom(s, pat, i) ==
    IF i + Len(pat) > Len(s) THEN -1
    ELSE IF SubSeq(s, i + 1, i + Len(pat)) = pat THEN i
    ELSE FindFrom(s, pat, i + 1)

Find(s, pat) == FindFrom(s, pat, 0)

\* One line of str::lines has its line ending removed: "\n", or "\r\n".
StripCR(l) ==
    IF l # <<>> /\ l[Len(l)] = "\r" THEN SubSeq(l, 1, Len(l) - 1) ELSE l

\* str::lines: split at "\n", a final empty line is not a line
RECURSIVE Lines(_)
Lines(s) ==
    IF s = <<>> THEN <<>>
    ELSE LET e == Find(s, <<NL>>) IN
         IF e = -1 THEN <<s>>
         ELSE <<StripCR(SubSeq(s, 1, e))>> \o Lines(From(s, e + 1))

\* The bytes of the model that are not ASCII: U+00E9 is "xC3" "xA9".
Utf8Lead == "xC3"
Utf8Cont == "xA9"
Replacement == "xFFFD"

\* String::from_utf8(..).is_ok(): every lead byte is followed by its
\* continuation byte, and no continuation byte stands alone
\* A decoder that accepts every chunk
ValidUtf8_Always(b) == TRUE

RECURSIVE ValidUtf8(_)
ValidUtf8(b) ==
    IF b = <<>> THEN TRUE
    ELSE IF Head(b) = Utf8Lead
         THEN Len(b) >= 2 /\ b[2] = Utf8Cont /\ ValidUtf8(From(b, 2))
    ELSE IF Head(b) = Utf8Cont THEN FALSE
    ELSE ValidUtf8(Tail(b))

\* String::from_utf8_lossy: an invalid sequence becomes U+FFFD
RECURSIVE from_utf8_lossy(_)
from_utf8_lossy(b) ==
    IF b = <<>> THEN <<>>
    ELSE IF Head(b) = Utf8Lead /\ Len(b) >= 2 /\ b[2] = Utf8Cont
         THEN <<Utf8Lead, Utf8Cont>> \o from_utf8_lossy(From(b, 2))
    ELSE IF Head(b) \in {Utf8Lead, Utf8Cont}
         THEN <<Replacement>> \o from_utf8_lossy(Tail(b))
    ELSE <<Head(b)>> \o from_utf8_lossy(Tail(b))

-----------------------------------------------------------------------------
(* streaming.rs *)

Some(v) == [tag |-> "Some", val |-> v]

DataPrefix == <<"d", "a", "t", "a", ":", " ">>
EventPrefix == <<"e", "v", "e", "n", "t", ":", " ">>
DoneMarker == <<"[", "D", "O", "N", "E", "]">>

\* The member lists of the JSON objects on the wire.  One element stands for
\* a run of ASCII bytes without a line break, which the model does not cut:
\*   "<hel>"  "id":"c","object":"o","created":1,"model":"m",
\*            "choices":[{"index":0,"delta":{"content":"Hel"}}]
\*   "<lo>"   the same with "content":"lo"
\*   "<role>" the same with "delta":{"role":"assistant"}
\*   "<none>" the same with "choices":[]
\*   "<bad>"  "id":7   (an object that is no ChatCompletionChunk)
JsonWhitespace(b) == b \in {" ", "\t", "\n", "\r"}

RECURSIVE SkipJsonWs(_)
SkipJsonWs(s) ==
    IF s # <<>> /\ JsonWhitespace(Head(s)) THEN SkipJsonWs(Tail(s)) ELSE s

RECURSIVE SkipJsonWsEnd(_)
SkipJsonWsEnd(s) ==
    IF s # <<>> /\ JsonWhitespace(s[Len(s)])
    THEN SkipJsonWsEnd(SubSeq(s, 1, Len(s) - 1))
    ELSE s

\* ChatCompletionChunk values, by the content of choices
Delta(c) == [role |-> None, content |-> c]
ChunkValue(cs) == [choices |-> cs]

\* serde_json::from_str::<ChatCompletionChunk>: whitespace around the value
\* is skipped; the value must be an object with the fields of the struct
ParseChatChunk(s) ==
    LET v == SkipJsonWsEnd(SkipJsonWs(s)) IN
    CASE v = <<"{", "<hel>", "}">> ->
            Some(ChunkValue(<<Delta(Some(<<"H", "e", "l">>))>>))
      [] v = <<"{", "<lo>", "}">> ->
            Some(ChunkValue(<<Delta(Some(<<"l", "o">>))>>))
      [] v = <<"{", "<role>", "}">> -> Some(ChunkValue(<<Delta(None)>>))
      [] v = <<"{", "<none>", "}">> -> Some(ChunkValue(<<>>))
      [] OTHER -> None

StreamChunk(raw, chunk, is_done) ==
    [raw |-> raw, chunk |-> chunk, is_done |-> is_done]

\* A loop that keeps the payload of the first data: line
RECURSIVE ScanLines_FirstWins(_, _, _)
ScanLines_FirstWins(lines, i, data_content) ==
    IF i > Len(lines)
    THEN [data_content |-> data_content, is_done |-> FALSE]
    ELSE LET line == Trim(lines[i]) IN
         IF StartsWith(line, DataPrefix)
         THEN LET data == From(line, 6) IN
              IF data = DoneMarker
              THEN [data_content |-> data_content, is_done |-> TRUE]
              ELSE ScanLines_FirstWins(lines, i + 1,
                       IF data_content = <<>> THEN data ELSE data_content)
         ELSE ScanLines_FirstWins(lines, i + 1, data_content)

\* The for loop of parse_sse_chunk over lines[i..], with the locals
\* data_content and is_done; the loop breaks at the [DONE] line.
RECURSIVE ScanLines(_, _, _)
ScanLines(lines, i, data_content) ==
    IF i > Len(lines)
    THEN [data_content |-> data_content, is_done |-> FALSE]
    ELSE LET line == Trim(lines[i]) IN
         IF StartsWith(line, DataPrefix)
         THEN LET data == From(line, 6) IN
              IF data = DoneMarker
              THEN [data_content |-> data_content, is_done |-> TRUE]
              ELSE ScanLines(lines, i + 1, data)
         ELSE ScanLines(lines, i + 1, data_content)

\* A parser for which a payload that is no chat delta is an error
parse_sse_chunk_Strict(t) ==
    IF Trim(t) = <<>>
    THEN Ok(StreamChunk(t, None, FALSE))
    ELSE LET r == ScanLines(Lines(t), 1, <<>>) IN
         IF r.data_content # <<>> /\ ParseChatChunk(r.data_content) = None
         THEN Err([variant |-> "ParseError", status |-> 0,
                   message |-> "", cause |-> ""])
         ELSE Ok(StreamChunk(t, ParseChatChunk(r.data_content), r.is_done))

parse_sse_chunk(t) ==
    IF Trim(t) = <<>>
    THEN Ok(StreamChunk(t, None, FALSE))
    ELSE LET r == ScanLines(Lines(t), 1, <<>>) IN
         LET chunk == IF r.data_content # <<>>
                      THEN ParseChatChunk(r.data_content)
                      ELSE None
         IN Ok(StreamChunk(t, chunk, r.is_done))

\* An adapter that parses all the text received so far with each chunk
StreamItem_Buffered(r) ==
    IF r.kind = "chunk"
    THEN parse_sse_chunk(from_utf8_lossy(SubSeq(ch_wire, 1, ch_pos + Len(r.bytes))))
    ELSE Err(HttpError(r.cause))

\* The closure of ChatCompletionStream::new, applied to one item of
\* bytes_stream: Ok(bytes) is decoded lossily and parsed, Err(e) is wrapped.
StreamItem(r) ==
    IF r.kind = "chunk"
    THEN parse_sse_chunk(from_utf8_lossy(r.bytes))
    ELSE Err(HttpError(r.cause))

-----------------------------------------------------------------------------
(* The bodies a chat-completions response may carry *)

Hel == <<"{", "<hel>", "}">>
Lo == <<"{", "<lo>", "}">>
Role == <<"{", "<role>", "}">>
NoChoices == <<"{", "<none>", "}">>
Bad == <<"{", "<bad>", "}">>
Heartbeat == <<"h", "e", "a", "r", "t", "b", "e", "a", "t">>
Ping == <<"p", "i", "n", "g">>

DataLine(p) == DataPrefix \o p \o <<NL>>
EventLine(e) == EventPrefix \o e \o <<NL>>
Blank == <<NL>>

ChatWires ==
    { DataLine(Hel) \o Blank \o DataLine(Lo) \o Blank,
      DataLine(Hel) \o DataLine(DoneMarker) \o Blank,
      DataLine(DoneMarker) \o Blank \o DataLine(Lo) \o Blank,
      EventLine(Heartbeat) \o DataLine(Ping) \o Blank,
      DataLine(Bad) \o Blank \o DataLine(Lo) \o Blank,
      DataLine(Hel) \o DataLine(Lo) \o Blank,
      <<" ", NL, NL>> \o DataLine(Role) \o Blank \o DataLine(NoChoices) \o Blank,
      <<":", Utf8Lead, Utf8Cont, NL, NL>> \o DataLine(Lo) \o Blank }

\* The reqwest::Error kinds a body stream may fail with.
BodyCauses == {"reset", "closed", "ended", "dns", "decode"}

Chunk(b) == [kind |-> "chunk", bytes |-> b, cause |-> ""]
BodyErr(c) == [kind |-> "error", bytes |-> <<>>, cause |-> c]
EndOfBody == [kind |-> "end", bytes |-> <<>>, cause |-> ""]

\* What bytes_stream().next() can give: the next bytes of the body, cut
\* anywhere; an error; or None once the body is through or has failed.
BodyOffers(wire, pos, tr, delivered, max) ==
    (IF tr = "live" /\ delivered < max
     THEN {Chunk(SubSeq(wire, pos + 1, pos + k)) : k \in 1..(Len(wire) - pos)}
     ELSE {})
    \cup (IF tr = "live" THEN {BodyErr(c) : c \in BodyCauses} ELSE {})
    \cup (IF tr = "ended" \/ pos = Len(wire) THEN {EndOfBody} ELSE {})

-----------------------------------------------------------------------------
(* client.rs: make_request_stream, chat_completion_stream *)

\* What make_request_stream returns for the outcome of its send().await
make_request_stream(o) ==
    IF o.kind = "error" THEN Err(HttpError(o.cause))
    ELSE IF is_success(o.status) THEN Ok(o.status)
    ELSE Err(from_response(o.status, error_body(o.body)))

\* A make_request_stream that goes round again as make_request does
AfterStreamSend_Retrying(r) ==
    IF r.tag = "Ok" THEN "open"
    ELSE IF is_retryable(r.val) /\ Len(st_outcomes) < config.max_retries
    THEN "send"
    ELSE "failed"

\* Where make_request_stream stands once send() has answered: it has
\* returned, with the response or with the error.
AfterStreamSend(r) == IF r.tag = "Ok" THEN "open" ELSE "failed"

\* chat_completion_stream: the request is requests; Ok(response) becomes a
\* ChatCompletionStream over the body.
StreamSend(o) ==
    /\ st_pc = "send"
    /\ st_outcomes' = Append(st_outcomes, o)
    /\ LET r == make_request_stream(o) IN
       /\ st_pc' = AfterStreamSend(r)
       /\ st_result' = IF AfterStreamSend(r) = "send" THEN None ELSE r
       /\ ch_pc' = IF AfterStreamSend(r) = "open" THEN "pulling" ELSE ch_pc
    /\ UNCHANGED <<config, concVars, libVars, reqVars, dlVars>>
    /\ UNCHANGED <<ch_mode, ch_wire, ch_pos, ch_tr, items, chunks, text, ch_result>>

\* The transport's side of one poll of the body stream.
Deliver(r) ==
    /\ ch_pos' = ch_pos + Len(r.bytes)
    /\ ch_tr' = IF r.kind = "chunk" THEN "live" ELSE "ended"

\* ChatCompletionStream::next, called by the consumer itself
StreamNext(r) ==
    /\ ch_pc = "pulling" /\ ch_mode = "next"
    /\ Deliver(r)
    /\ IF r.kind = "end"
       THEN ch_pc' = "returned" /\ UNCHANGED items
       ELSE items' = Append(items, StreamItem(r)) /\ UNCHANGED ch_pc
    /\ UNCHANGED <<config, concVars, libVars, reqVars, dlVars, stVars, ch_mode, ch_wire, chunks, text, ch_result>>

\* A loop that never breaks
IsLast_Never(chunk) == FALSE

\* if is_done { break; }   and   if chunk.is_done { break; }
IsLast(chunk) == chunk.is_done

\* A helper that looks at is_done before the content
ContentOf_NotOfDone(item) ==
    IF ~item.is_done
          /\ item.chunk.tag = "Some"
          /\ item.chunk.val.choices # <<>>
          /\ item.chunk.val.choices[1].content.tag = "Some"
    THEN item.chunk.val.choices[1].content.val
    ELSE <<>>

\* delta content of the first choice, or nothing
ContentOf(item) ==
    IF item.chunk.tag = "Some"
          /\ item.chunk.val.choices # <<>>
          /\ item.chunk.val.choices[1].content.tag = "Some"
    THEN item.chunk.val.choices[1].content.val
    ELSE <<>>

\* One pass of the while loop of collect
CollectStep(r) ==
    /\ ch_pc = "pulling" /\ ch_mode = "collect"
    /\ Deliver(r)
    /\ IF r.kind = "end"
       THEN /\ ch_result' = Ok(chunks)
            /\ ch_pc' = "returned"
            /\ UNCHANGED <<items, chunks>>
       ELSE LET chunk == StreamItem(r) IN
            /\ items' = Append(items, chunk)
            /\ IF chunk.tag = "Ok"
               THEN /\ chunks' = Append(chunks, chunk.val)
                    /\ IF IsLast(chunk.val)
                       THEN ch_result' = Ok(chunks') /\ ch_pc' = "returned"
                       ELSE UNCHANGED <<ch_result, ch_pc>>
               ELSE /\ ch_result' = Err(chunk.val)
                    /\ ch_pc' = "returned"
                    /\ UNCHANGED chunks
    /\ UNCHANGED <<config, concVars, libVars, reqVars, dlVars, stVars, ch_mode, ch_wire, text>>

\* A collect_text that returns the text it has when an error comes
CollectTextStep_PartialText(r) ==
    /\ ch_pc = "pulling" /\ ch_mode = "collect_text"
    /\ Deliver(r)
    /\ IF r.kind = "end"
       THEN /\ ch_result' = Ok(text)
            /\ ch_pc' = "returned"
            /\ UNCHANGED <<items, text>>
       ELSE LET chunk == StreamItem(r) IN
            /\ items' = Append(items, chunk)
            /\ IF chunk.tag = "Ok"
               THEN /\ text' = text \o ContentOf(chunk.val)
                    /\ IF IsLast(chunk.val)
                       THEN ch_result' = Ok(text') /\ ch_pc' = "returned"
                       ELSE UNCHANGED <<ch_result, ch_pc>>
               ELSE /\ ch_result' = Ok(text)
                    /\ ch_pc' = "returned"
                    /\ UNCHANGED text
    /\ UNCHANGED <<config, concVars, libVars, reqVars, dlVars, stVars, ch_mode, ch_wire, chunks>>

\* One pass of the while loop of collect_text
CollectTextStep(r) ==
    /\ ch_pc = "pulling" /\ ch_mode = "collect_text"
    /\ Deliver(r)
    /\ IF r.kind = "end"
       THEN /\ ch_result' = Ok(text)
            /\ ch_pc' = "returned"
            /\ UNCHANGED <<items, text>>
       ELSE LET chunk == StreamItem(r) IN
            /\ items' = Append(items, chunk)
            /\ IF chunk.tag = "Ok"
               THEN /\ text' = text \o ContentOf(chunk.val)
                    /\ IF IsLast(chunk.val)
                       THEN ch_result' = Ok(text') /\ ch_pc' = "returned"
                       ELSE UNCHANGED <<ch_result, ch_pc>>
               ELSE /\ ch_result' = Err(chunk.val)
                    /\ ch_pc' = "returned"
                    /\ UNCHANGED text
    /\ UNCHANGED <<config, concVars, libVars, reqVars, dlVars, stVars, ch_mode, ch_wire, chunks>>

\* What the send().await of a streaming request can come back with: the body
\* of a 2xx response is the stream, not an error text.
StreamOutcomes ==
    {o \in SendOutcomes : o.kind = "response" /\ is_success(o.status) => o.body.ok}

ChatOffers == BodyOffers(ch_wire, ch_pos, ch_tr, Len(items), MaxChatChunks)

ChatNext ==
    \/ \E o \in StreamOutcomes : StreamSend(o)
    \/ \E r \in ChatOffers : StreamNext(r)
    \/ \E r \in ChatOffers : CollectStep(r)
    \/ \E r \in ChatOffers : CollectTextStep(r)

-----------------------------------------------------------------------------
(* download.rs: parse_sse_event *)

KeepAliveText == <<"k", "e", "e", "p", "-", "a", "l", "i", "v", "e">>

\* A loop that keeps the first event: line and the first data: line
RECURSIVE EventFields_FirstWins(_, _, _, _, _)
EventFields_FirstWins(lines, i, event_type, data, has_comment) ==
    IF i > Len(lines)
    THEN [event_type |-> event_type, data |-> data, has_comment |-> has_comment]
    ELSE LET line == lines[i] IN
         IF StartsWith(line, EventPrefix)
         THEN EventFields_FirstWins(lines, i + 1,
                  IF event_type = None THEN Some(From(line, 7)) ELSE event_type,
                  data, has_comment)
         ELSE IF StartsWith(line, DataPrefix)
         THEN EventFields_FirstWins(lines, i + 1, event_type,
                  IF data = None THEN Some(From(line, 6)) ELSE data,
                  has_comment)
         ELSE IF StartsWith(line, <<":">>)
         THEN EventFields_FirstWins(lines, i + 1, event_type, data, TRUE)
         ELSE EventFields_FirstWins(lines, i + 1, event_type, data, has_comment)

\* The locals event_type, data and has_comment after the for loop of
\* parse_sse_event over lines[i..]
RECURSIVE EventFields(_, _, _, _, _)
EventFields(lines, i, event_type, data, has_comment) ==
    IF i > Len(lines)
    THEN [event_type |-> event_type, data |-> data, has_comment |-> has_comment]
    ELSE LET line == lines[i] IN
         IF StartsWith(line, EventPrefix)
         THEN EventFields(lines, i + 1, Some(From(line, 7)), data, has_comment)
         ELSE IF StartsWith(line, DataPrefix)
         THEN EventFields(lines, i + 1, event_type, Some(From(line, 6)), has_comment)
         ELSE IF StartsWith(line, <<":">>)
         THEN EventFields(lines, i + 1, event_type, data, TRUE)
         ELSE EventFields(lines, i + 1, event_type, data, has_comment)

DownloadEventOf(json) == [tag |-> "DownloadEvent", val |-> json]
KeepAlive == [tag |-> "KeepAlive", val |-> <<>>]
HeartbeatEvent == [tag |-> "Heartbeat", val |-> <<>>]

\* A classifier whose third arm is for records with no event label only
parse_sse_event_UnlabelledJson(event_data) ==
    LET f == EventFields(Lines(event_data), 1, None, None, FALSE) IN
    CASE f.event_type = Some(Heartbeat) /\ f.data = Some(Ping) -> Some(HeartbeatEvent)
      [] f.event_type = None /\ f.data = Some(KeepAliveText) -> Some(KeepAlive)
      [] f.event_type = None /\ f.data.tag = "Some" /\ StartsWith(f.data.val, <<"{">>)
            /\ EndsWith(f.data.val, <<"}">>) ->
            Some(DownloadEventOf(f.data.val))
      [] f.event_type = None /\ f.data \in {Some(<<>>), None} /\ f.has_comment ->
            Some(KeepAlive)
      [] OTHER -> None

\* Option<ParsedSseEvent>; None for the arm  _ => None
parse_sse_event(event_data) ==
    LET f == EventFields(Lines(event_data), 1, None, None, FALSE) IN
    CASE f.event_type = Some(Heartbeat) /\ f.data = Some(Ping) -> Some(HeartbeatEvent)
      [] f.event_type = None /\ f.data = Some(KeepAliveText) -> Some(KeepAlive)
      [] f.data.tag = "Some" /\ StartsWith(f.data.val, <<"{">>)
            /\ EndsWith(f.data.val, <<"}">>) ->
            Some(DownloadEventOf(f.data.val))
      [] f.event_type = None /\ f.data \in {Some(<<>>), None} /\ f.has_comment ->
            Some(KeepAlive)
      [] OTHER -> None

-----------------------------------------------------------------------------
(* download.rs: into_stream *)

\* The member lists of the download events on the wire, each one element
\* as above:  "<progress>" and "<complete>" are the fields of two
\* DownloadEvent values, "<msg:" U+00E9 ">" those of a third, whose text has
\* a two-byte character.
Progress == <<"{", "<progress>", "}">>
Complete == <<"{", "<complete>", "}">>
Accent == <<"{", "<msg:", Utf8Lead, Utf8Cont, ">", "}">>

JsonParseError(json) ==
    [variant |-> "JsonParseError", status |-> 0, message |-> json, cause |-> ""]
StreamError(c) ==
    [variant |-> "StreamError", status |-> 0, message |-> "", cause |-> c]

\* serde_json::from_str::<DownloadEvent>
ParseDownloadEvent(json) ==
    LET v == SkipJsonWsEnd(SkipJsonWs(json)) IN
    IF v \in {Progress, Complete, Accent} THEN Ok(v) ELSE Err(JsonParseError(json))

Delimiter == <<NL, NL>>

\* while let Some(event_end) = buffer.find("\n\n")
HasEvent(buf) == Find(buf, Delimiter) # -1

\* buffer[..event_end]
EventData(buf) == SubSeq(buf, 1, Find(buf, Delimiter))

\* buffer.drain(..event_end + 2)
Drained(buf) == From(buf, Find(buf, Delimiter) + 2)

\* A loop body that yields the events and keeps the parse failures
ItemsFor_OkOnly(event_data) ==
    LET parsed == parse_sse_event(event_data) IN
    IF parsed.tag = "Some" /\ parsed.val.tag = "DownloadEvent"
          /\ ParseDownloadEvent(parsed.val.val).tag = "Ok"
    THEN <<ParseDownloadEvent(parsed.val.val)>>
    ELSE <<>>

\* A loop body that yields for every parsed event, whatever its kind
ItemsFor_EveryKind(event_data) ==
    LET parsed == parse_sse_event(event_data) IN
    IF parsed.tag = "Some"
    THEN <<ParseDownloadEvent(parsed.val.val)>>
    ELSE <<>>

\* A loop body for which an event it cannot parse is an error
ItemsFor_UnknownIsError(event_data) ==
    LET parsed == parse_sse_event(event_data) IN
    IF parsed.tag = "Some" /\ parsed.val.tag = "DownloadEvent"
    THEN <<ParseDownloadEvent(parsed.val.val)>>
    ELSE IF parsed = None THEN <<Err(JsonParseError(event_data))>>
    ELSE <<>>

\* What the body of the inner while loop yields for one event_data
ItemsFor(event_data) ==
    LET parsed == parse_sse_event(event_data) IN
    IF parsed.tag = "Some" /\ parsed.val.tag = "DownloadEvent"
    THEN <<ParseDownloadEvent(parsed.val.val)>>
    ELSE <<>>

\* The Display text of a body-stream error, in words
ErrorText(c) ==
    CASE c = "reset" -> <<"error reading a body from connection", ": ",
                          "connection reset", " by peer">>
      [] c = "closed" -> <<"connection closed", " before message completed">>
      [] c = "ended" -> <<"stream ended", " unexpectedly">>
      [] c = "dns" -> <<"DNS resolution failed">>
      [] OTHER -> <<"error decoding response body">>

\* str::contains, on a text in words
Contains(t, w) == \E i \in 1..Len(t) : t[i] = w

\* A test that knows the reset of the connection only
IsBenign_ResetOnly(c) == Contains(ErrorText(c), "connection reset")

\* The errors into_stream takes for the end of the download
IsBenign(c) ==
    \/ Contains(ErrorText(c), "connection closed")
    \/ Contains(ErrorText(c), "stream ended")
    \/ Contains(ErrorText(c), "connection reset")

\* The status codes the progress endpoint may answer with.
DownloadOutcomes ==
    {Response(s, [ok |-> TRUE, text |-> ""]) : s \in {200, 404}}
        \cup {TransportErr(c) : c \in Causes}

\* The stream is polled for the first time: the request is requests.  The
\* client built for it sets a timeout only, and is taken to build.
StartStream(o) ==
    /\ dl_pc = "start"
    /\ dl_outcomes' = Append(dl_outcomes, o)
    /\ IF o.kind = "error"
       THEN /\ yielded' = Append(yielded, Err(HttpError(o.cause)))
            /\ dl_pc' = "done"
       ELSE /\ dl_pc' = "recv"
            /\ UNCHANGED yielded
    /\ UNCHANGED <<dl_wire, dl_pos, dl_tr, dl_error, buffer, received, records>>
    /\ UNCHANGED <<config, concVars, libVars, reqVars, stVars, chVars>>

\* A stream that sends its request again when the body fails
Receive_Reconnecting(r) ==
    /\ dl_pc = "recv"
    /\ dl_pos' = dl_pos + Len(r.bytes)
    /\ dl_tr' = IF r.kind = "chunk" THEN "live" ELSE "ended"
    /\ dl_error' = r.cause
    /\ CASE r.kind = "chunk" ->
              IF ValidUtf8(r.bytes)
              THEN /\ buffer' = buffer \o r.bytes
                   /\ received' = received \o r.bytes
                   /\ dl_pc' = IF HasEvent(buffer') THEN "scan" ELSE "recv"
                   /\ UNCHANGED yielded
              ELSE UNCHANGED <<buffer, received, dl_pc, yielded>>
         [] r.kind = "error" ->
              /\ yielded' = IF IsBenign(r.cause)
                            THEN yielded
                            ELSE Append(yielded, Err(StreamError(r.cause)))
              /\ dl_pc' = IF IsBenign(r.cause) THEN "done" ELSE "start"
              /\ UNCHANGED <<buffer, received>>
         [] OTHER ->
              /\ dl_pc' = "done"
              /\ UNCHANGED <<buffer, received, yielded>>
    /\ UNCHANGED <<dl_outcomes, dl_wire, records>>
    /\ UNCHANGED <<config, concVars, libVars, reqVars, stVars, chVars>>

\* bytes_stream.next().await has an answer: one pass of the outer while loop
\* up to the inner loop
\* A stream that parses what is left in the buffer when the body ends
Receive_FlushAtEnd(r) ==
    /\ dl_pc = "recv"
    /\ dl_pos' = dl_pos + Len(r.bytes)
    /\ dl_tr' = IF r.kind = "chunk" THEN "live" ELSE "ended"
    /\ dl_error' = r.cause
    /\ CASE r.kind = "chunk" ->
              IF ValidUtf8(r.bytes)
              THEN /\ buffer' = buffer \o r.bytes
                   /\ received' = received \o r.bytes
                   /\ dl_pc' = IF HasEvent(buffer') THEN "scan" ELSE "recv"
                   /\ UNCHANGED yielded
              ELSE UNCHANGED <<buffer, received, dl_pc, yielded>>
         [] r.kind = "error" ->
              /\ yielded' = IF IsBenign(r.cause)
                            THEN yielded
                            ELSE Append(yielded, Err(StreamError(r.cause)))
              /\ dl_pc' = "done"
              /\ UNCHANGED <<buffer, received>>
         [] OTHER ->
              /\ dl_pc' = "done"
              /\ yielded' = IF Trim(buffer) # <<>>
                            THEN yielded \o ItemsFor(buffer)
                            ELSE yielded
              /\ UNCHANGED <<buffer, received>>
    /\ UNCHANGED <<dl_outcomes, dl_wire, records>>
    /\ UNCHANGED <<config, concVars, libVars, reqVars, stVars, chVars>>

\* A stream that looks for the delimiter in the new chunk only
Receive_ScanChunkOnly(r) ==
    /\ dl_pc = "recv"
    /\ dl_pos' = dl_pos + Len(r.bytes)
    /\ dl_tr' = IF r.kind = "chunk" THEN "live" ELSE "ended"
    /\ dl_error' = r.cause
    /\ CASE r.kind = "chunk" ->
              IF ValidUtf8(r.bytes)
              THEN /\ buffer' = buffer \o r.bytes
                   /\ received' = received \o r.bytes
                   /\ dl_pc' = IF HasEvent(r.bytes) THEN "scan" ELSE "recv"
                   /\ UNCHANGED yielded
              ELSE UNCHANGED <<buffer, received, dl_pc, yielded>>
         [] r.kind = "error" ->
              /\ yielded' = IF IsBenign(r.cause)
                            THEN yielded
                            ELSE Append(yielded, Err(StreamError(r.cause)))
              /\ dl_pc' = "done"
              /\ UNCHANGED <<buffer, received>>
         [] OTHER ->
              /\ dl_pc' = "done"
              /\ UNCHANGED <<buffer, received, yielded>>
    /\ UNCHANGED <<dl_outcomes, dl_wire, records>>
    /\ UNCHANGED <<config, concVars, libVars, reqVars, stVars, chVars>>

Receive(r) ==
    /\ dl_pc = "recv"
    /\ dl_pos' = dl_pos + Len(r.bytes)
    /\ dl_tr' = IF r.kind = "chunk" THEN "live" ELSE "ended"
    /\ dl_error' = r.cause
    /\ CASE r.kind = "chunk" ->
              IF ValidUtf8(r.bytes)
              THEN /\ buffer' = buffer \o r.bytes
                   /\ received' = received \o r.bytes
                   /\ dl_pc' = IF HasEvent(buffer') THEN "scan" ELSE "recv"
                   /\ UNCHANGED yielded
              ELSE UNCHANGED <<buffer, received, dl_pc, yielded>>
         [] r.kind = "error" ->
              /\ yielded' = IF IsBenign(r.cause)
                            THEN yielded
                            ELSE Append(yielded, Err(StreamError(r.cause)))
              /\ dl_pc' = "done"
              /\ UNCHANGED <<buffer, received>>
         [] OTHER ->
              /\ dl_pc' = "done"
              /\ UNCHANGED <<buffer, received, yielded>>
    /\ UNCHANGED <<dl_outcomes, dl_wire, records>>
    /\ UNCHANGED <<config, concVars, libVars, reqVars, stVars, chVars>>

\* An inner loop that takes one event out for each chunk
ScanEvent_OnePerChunk ==
    /\ dl_pc = "scan"
    /\ LET event_data == EventData(buffer) IN
       /\ buffer' = Drained(buffer)
       /\ records' = Append(records, event_data)
       /\ yielded' = yielded \o ItemsFor(event_data)
    /\ dl_pc' = "recv"
    /\ UNCHANGED <<dl_outcomes, dl_wire, dl_pos, dl_tr, dl_error, received>>
    /\ UNCHANGED <<config, concVars, libVars, reqVars, stVars, chVars>>

\* One pass of the inner while loop: the first event leaves the buffer and
\* is parsed, and its item, if it has one, is yielded
ScanEvent ==
    /\ dl_pc = "scan"
    /\ LET event_data == EventData(buffer) IN
       /\ buffer' = Drained(buffer)
       /\ records' = Append(records, event_data)
       /\ yielded' = yielded \o ItemsFor(event_data)
    /\ dl_pc' = IF HasEvent(buffer') THEN "scan" ELSE "recv"
    /\ UNCHANGED <<dl_outcomes, dl_wire, dl_pos, dl_tr, dl_error, received>>
    /\ UNCHANGED <<config, concVars, libVars, reqVars, stVars, chVars>>

DownloadOffers == BodyOffers(dl_wire, dl_pos, dl_tr, 0, 1)

DownloadNext ==
    \/ \E o \in DownloadOutcomes : StartStream(o)
    \/ \E r \in DownloadOffers : Receive(r)
    \/ ScanEvent

\* The records a progress endpoint may send
DownloadRecords ==
    { DataPrefix \o Progress,
      EventLine(<<"p">>) \o DataPrefix \o Complete,
      DataPrefix \o Bad,
      EventLine(Heartbeat) \o DataPrefix \o Ping,
      DataPrefix \o KeepAliveText,
      <<":">>,
      DataPrefix \o <<"h", "i">> }

\* The bodies of up to n records, each closed by the delimiter
RECURSIVE Bodies_(_)
Bodies_(n) ==
    IF n = 0 THEN {<<>>}
    ELSE LET shorter == Bodies_(n - 1) IN
         shorter \cup {b \o r \o Delimiter : b \in shorter, r \in DownloadRecords}

\* ... those bodies cut off inside one more record, and bodies with an
\* event whose text is not ASCII
DownloadWires ==
    (Bodies_(MaxRecords) \ {<<>>})
        \cup {b \o DataPrefix \o Progress \o <<NL>> : b \in Bodies_(MaxRecords - 1)}
        \cup { DataPrefix \o Accent \o Delimiter,
               DataPrefix \o Accent \o Delimiter \o DataPrefix \o Progress \o Delimiter,
               DataPrefix \o Progress \o Delimiter \o DataPrefix \o Accent \o Delimiter }

-----------------------------------------------------------------------------
(* Calls and streams side by side on one client *)

\* The locals of a call of make_request at its entry:  let mut retries = 0
NewCall == [pc |-> "send", retries |-> 0, outcomes |-> <<>>, sleeps |-> <<>>,
            result |-> None]

\* The locals of a stream before its first poll:  buffer = String::new()
NewStream(wire) ==
    [pc |-> "start", wire |-> wire, pos |-> 0, tr |-> "live", requests |-> <<>>,
     got |-> <<>>, buffer |-> <<>>, yielded |-> <<>>]

\* A counter that all the calls of a client count on
LocalRetries_Shared(p) == calls[1].retries + calls[2].retries

\* retries is a local of the call
LocalRetries(p) == calls[p].retries

\* buffer is a local of the stream
LocalBuffer(p) == streams[p].buffer

\* One pass of the loop body of make_request in the call p
CallAttempt(p, o) ==
    /\ calls[p].pc = "send"
    /\ LET c == [calls[p] EXCEPT !.outcomes = Append(@, o)] IN
       IF o.kind = "response" /\ is_success(o.status)
       THEN calls' = [calls EXCEPT ![p] =
                         [c EXCEPT !.result = Ok(o.status), !.pc = "done"]]
       ELSE LET error == AttemptError(o) IN
            IF ShouldRetry(error, LocalRetries(p))
            THEN calls' = [calls EXCEPT ![p] =
                              [c EXCEPT !.retries = LocalRetries(p) + 1,
                                        !.sleeps = Append(@, config.retry_delay),
                                        !.pc = "sleep"]]
            ELSE calls' = [calls EXCEPT ![p] =
                              [c EXCEPT !.result = Err(error), !.pc = "done"]]
    /\ UNCHANGED <<config, libVars, streams, reqVars, stVars, chVars, dlVars>>

\* The sleep of the call p is over
CallWakeUp(p) ==
    /\ calls[p].pc = "sleep"
    /\ calls' = [calls EXCEPT ![p].pc = "send"]
    /\ UNCHANGED <<config, libVars, streams, reqVars, stVars, chVars, dlVars>>

\* The first poll of the stream p: its request is requests
StreamStart(p, o) ==
    /\ streams[p].pc = "start"
    /\ streams' = [streams EXCEPT ![p] =
          IF o.kind = "error"
          THEN [@ EXCEPT !.requests = Append(@, o), !.pc = "done",
                         !.yielded = Append(@, Err(HttpError(o.cause)))]
          ELSE [@ EXCEPT !.requests = Append(@, o), !.pc = "recv"]]
    /\ UNCHANGED <<config, libVars, calls, reqVars, stVars, chVars, dlVars>>

\* One pass of the outer loop of the stream p, up to its inner loop
StreamReceive(p, r) ==
    /\ streams[p].pc = "recv"
    /\ LET st == [streams[p] EXCEPT !.got = Append(@, r),
                                    !.pos = @ + Len(r.bytes),
                                    !.tr = IF r.kind = "chunk" THEN "live" ELSE "ended"]
       IN streams' = [streams EXCEPT ![p] =
             CASE r.kind = "chunk" ->
                    IF ValidUtf8(r.bytes)
                    THEN [st EXCEPT !.buffer = LocalBuffer(p) \o r.bytes,
                                    !.pc = IF HasEvent(LocalBuffer(p) \o r.bytes)
                                           THEN "scan" ELSE "recv"]
                    ELSE st
               [] r.kind = "error" ->
                    [st EXCEPT !.pc = "done",
                               !.yielded = IF IsBenign(r.cause) THEN @
                                           ELSE Append(@, Err(StreamError(r.cause)))]
               [] OTHER -> [st EXCEPT !.pc = "done"]]
    /\ UNCHANGED <<config, libVars, calls, reqVars, stVars, chVars, dlVars>>

\* One pass of the inner loop of the stream p
StreamScan(p) ==
    /\ streams[p].pc = "scan"
    /\ LET event_data == EventData(LocalBuffer(p))
           rest == Drained(LocalBuffer(p))
       IN streams' = [streams EXCEPT ![p] =
             [@ EXCEPT !.buffer = rest,
                       !.yielded = @ \o ItemsFor(event_data),
                       !.pc = IF HasEvent(rest) THEN "scan" ELSE "recv"]]
    /\ UNCHANGED <<config, libVars, calls, reqVars, stVars, chVars, dlVars>>

\* What the transport answers the calls and the streams that run side by
\* side with
ConcurrentOutcomes ==
    {Response(st, [ok |-> TRUE, text |-> "overloaded"]) : st \in {200, 404, 503}}
        \cup {TransportErr("connect")}

ConcurrentWires ==
    { DataPrefix \o Progress \o Delimiter,
      <<":">> \o Delimiter \o DataPrefix \o Bad \o Delimiter }

\* What the body stream of the stream p can give: here the transport cuts
\* the body after a line break or a space, and fails in one of two ways
StreamOffers(p) ==
    LET st == streams[p] IN
    {r \in BodyOffers(st.wire, st.pos, st.tr, 0, 1) :
        /\ r.kind = "error" => r.cause \in {"reset", "dns"}
        /\ r.kind = "chunk" =>
              (st.pos + Len(r.bytes) = Len(st.wire)
                  \/ st.wire[st.pos + Len(r.bytes)] \in {NL, " "})}

ConcurrentNext ==
    \/ \E p \in DOMAIN calls : \E o \in ConcurrentOutcomes : CallAttempt(p, o)
    \/ \E p \in DOMAIN calls : CallWakeUp(p)
    \/ \E p \in DOMAIN streams :
          \E o \in {c \in ConcurrentOutcomes : c.kind = "response" => c.status = 200} :
              StreamStart(p, o)
    \/ \E p \in DOMAIN streams : \E r \in StreamOffers(p) : StreamReceive(p, r)
    \/ \E p \in DOMAIN streams : StreamScan(p)

-----------------------------------------------------------------------------
(* models.rs: ChatRequestBuilder *)

ChatMessage(role, content) == [role |-> role, content |-> content, name |-> None]

\* ChatRequestBuilder::new
new ==
    [messages |-> <<>>, model |-> None, max_tokens |-> None,
     temperature |-> None, top_p |-> None, stream |-> FALSE, stop |-> <<>>]

\* A builder that puts the newest message first
message_Prepend(self, role, content) ==
    [self EXCEPT !.messages = <<ChatMessage(role, content)>> \o @]

message(self, role, content) ==
    [self EXCEPT !.messages = Append(@, ChatMessage(role, content))]

user(self, content) == message(self, "user", content)

assistant(self, content) == message(self, "assistant", content)

system(self, content) == message(self, "system", content)

model(self, m) == [self EXCEPT !.model = Some(m)]

max_tokens(self, n) == [self EXCEPT !.max_tokens = Some(n)]

temperature(self, t) == [self EXCEPT !.temperature = Some(t)]

top_p(self, t) == [self EXCEPT !.top_p = Some(t)]

stream(self, flag) == [self EXCEPT !.stream = flag]

stop(self, seq) == [self EXCEPT !.stop = Append(@, seq)]

build(self) ==
    [model |-> IF self.model = None THEN "default" ELSE self.model.val,
     messages |-> self.messages,
     max_tokens |-> self.max_tokens,
     temperature |-> self.temperature,
     top_p |-> self.top_p,
     stream |-> Some(self.stream),
     stop |-> IF self.stop = <<>> THEN None ELSE Some(self.stop),
     user |-> None, presence_penalty |-> None, frequency_penalty |-> None,
     logit_bias |-> None, seed |-> None, n |-> None]

\* What a program may pass to the builder
Contents == {"hi", "yo"}
Roles == {"user", "tool"}
ModelNames == {"m", "n"}
TokenLimits == {10, 20}
Samplings == {"0.7"}
StopSequences == {"END"}

\* One method call, as the script keeps it
Call(op, role, content, num, flag) ==
    [op |-> op, role |-> role, text |-> content, num |-> num, flag |-> flag]

\* The builder is still in hand: build consumes it
InHand == built = None /\ Len(script) < MaxBuilderCalls

Chain(b, call) ==
    /\ InHand
    /\ builder' = b
    /\ script' = Append(script, call)
    /\ UNCHANGED <<built, probe, netVars>>
    /\ UNCHANGED <<config, reqVars, stVars, chVars, dlVars, concVars>>

CallMessage(role, content) ==
    Chain(message(builder, role, content), Call("message", role, content, 0, FALSE))

CallUser(content) ==
    Chain(user(builder, content), Call("user", "user", content, 0, FALSE))

CallAssistant(content) ==
    Chain(assistant(builder, content), Call("assistant", "assistant", content, 0, FALSE))

CallSystem(content) ==
    Chain(system(builder, content), Call("system", "system", content, 0, FALSE))

CallModel(m) == Chain(model(builder, m), Call("model", "", m, 0, FALSE))

CallMaxTokens(n) == Chain(max_tokens(builder, n), Call("max_tokens", "", "", n, FALSE))

CallTemperature(t) == Chain(temperature(builder, t), Call("temperature", "", t, 0, FALSE))

CallTopP(t) == Chain(top_p(builder, t), Call("top_p", "", t, 0, FALSE))

CallStream(flag) == Chain(stream(builder, flag), Call("stream", "", "", 0, flag))

CallStop(seq) == Chain(stop(builder, seq), Call("stop", "", seq, 0, FALSE))

CallBuild ==
    /\ built = None
    /\ built' = build(builder)
    /\ UNCHANGED <<builder, script, probe, netVars>>
    /\ UNCHANGED <<config, reqVars, stVars, chVars, dlVars, concVars>>

BuilderNext ==
    \/ \E role \in Roles : \E content \in Contents : CallMessage(role, content)
    \/ \E content \in Contents : CallUser(content)
    \/ \E content \in Contents : CallAssistant(content)
    \/ \E content \in Contents : CallSystem(content)
    \/ \E m \in ModelNames : CallModel(m)
    \/ \E n \in TokenLimits : CallMaxTokens(n)
    \/ \E t \in Samplings : CallTemperature(t)
    \/ \E t \in Samplings : CallTopP(t)
    \/ \E flag \in BOOLEAN : CallStream(flag)
    \/ \E seq \in StopSequences : CallStop(seq)
    \/ CallBuild

-----------------------------------------------------------------------------
(* streaming.rs: parse_sse_buffer; the parsers called on their own *)

\* str::split(pat): the pieces between the matches of pat, found from the left
RECURSIVE Split(_, _)
Split(s, pat) ==
    LET e == Find(s, pat) IN
    IF e = -1 THEN <<s>>
    ELSE <<SubSeq(s, 1, e)>> \o Split(From(s, e + Len(pat)), pat)

\* The for loop of parse_sse_buffer over the pieces segs[i..]
RECURSIVE PushChunks(_, _)
PushChunks(segs, i) ==
    IF i > Len(segs) THEN <<>>
    ELSE (IF Trim(segs[i]) # <<>> THEN <<parse_sse_chunk(segs[i])>> ELSE <<>>)
         \o PushChunks(segs, i + 1)

\* A parser that has a result for blank pieces too
parse_sse_buffer_KeepBlank(buf) ==
    [i \in 1..Len(Split(buf, <<NL, NL>>)) |-> parse_sse_chunk(Split(buf, <<NL, NL>>)[i])]

parse_sse_buffer(buf) == PushChunks(Split(buf, <<NL, NL>>), 1)

\* pieces[1] sep pieces[2] sep ... : a text written piece by piece
RECURSIVE JoinWith(_, _)
JoinWith(pieces, sep) ==
    IF pieces = <<>> THEN <<>>
    ELSE IF Len(pieces) = 1 THEN pieces[1]
    ELSE pieces[1] \o sep \o JoinWith(Tail(pieces), sep)

UpToMax(S) == UNION {[1..n -> S] : n \in 1..MaxPieces}

\* The pieces of the buffers given to parse_sse_buffer
BufferPieces ==
    {DataPrefix \o Hel, DataPrefix \o Lo, DataPrefix \o DoneMarker,
     <<>>, <<" ">>, <<NL>> \o DataPrefix \o Bad,
     EventPrefix \o <<"x">> \o <<NL>> \o DataPrefix \o Lo}

Buffers == {JoinWith(ps, <<NL, NL>>) : ps \in UpToMax(BufferPieces)}

\* The lines of the records given to parse_sse_event
RecordLines ==
    {EventPrefix \o Heartbeat, EventPrefix \o <<"p">>,
     DataPrefix \o Ping, DataPrefix \o KeepAliveText,
     DataPrefix \o Progress, DataPrefix \o Complete,
     DataPrefix, <<":", "c">>, <<"d", "a", "t", "a">>}

RecordTexts == {JoinWith(ls, <<NL>>) : ls \in UpToMax(RecordLines)}

Applied(fn, input, output) == [fn |-> fn, input |-> input, output |-> output]

ProbeBuffer(buf) ==
    /\ probe = None
    /\ probe' = Applied("parse_sse_buffer", buf, parse_sse_buffer(buf))
    /\ UNCHANGED <<builder, built, script, netVars>>
    /\ UNCHANGED <<config, reqVars, stVars, chVars, dlVars, concVars>>

ProbeEvent(event_data) ==
    /\ probe = None
    /\ probe' = Applied("parse_sse_event", event_data, parse_sse_event(event_data))
    /\ UNCHANGED <<builder, built, script, netVars>>
    /\ UNCHANGED <<config, reqVars, stVars, chVars, dlVars, concVars>>

ParsersNext ==
    \/ \E buf \in Buffers : ProbeBuffer(buf)
    \/ \E event_data \in RecordTexts : ProbeEvent(event_data)

-----------------------------------------------------------------------------
(* client.rs, download.rs: the headers of the requests *)

Header(name, value) == [name |-> name, value |-> value]

\* reqwest::Client::builder() .. .build(): a transport and the headers it
\* adds to every request
Transport(default_headers) == [default_headers |-> default_headers]

\* LmoClient::with_config: the Authorization header is a default header of
\* the transport when the configuration has an api_key
with_config(api_key) ==
    [api_key |-> api_key,
     transport |-> Transport(IF api_key # None
                             THEN {Header("authorization", <<"Bearer", api_key.val>>)}
                             ELSE {})]

\* RequestBuilder::send on a transport: the headers of the request, and the
\* default headers of the transport whose names the request does not set
Send(transport, headers) ==
    headers \cup {d \in transport.default_headers :
                     \A h \in headers : h.name # d.name}

\* RequestBuilder::json
JsonHeaders(body) ==
    IF body THEN {Header("content-type", <<"application/json">>)} ELSE {}

StreamingHeaders ==
    {Header("accept", <<"text/event-stream">>), Header("cache-control", <<"no-cache">>)}

\* The request of one attempt of make_request
make_request_headers(body) == Send(client.transport, JsonHeaders(body))

\* The request of make_request_stream
make_request_stream_headers(body) ==
    Send(client.transport, JsonHeaders(body) \cup StreamingHeaders)

\* A stream whose request goes through the transport of the client
into_stream_headers_ViaClient == Send(client.transport, StreamingHeaders)

\* The request of into_stream: download_progress_stream hands over the URL
\* alone and into_stream builds a transport of its own
into_stream_headers == Send(Transport({}), StreamingHeaders)

Sent(by, headers) == [by |-> by, headers |-> headers]

Hand(request) ==
    /\ Len(requests) < MaxRequests
    /\ requests' = Append(requests, request)
    /\ UNCHANGED <<client, builder, built, script, probe>>
    /\ UNCHANGED <<config, reqVars, stVars, chVars, dlVars, concVars>>

SendUnary(body) == Hand(Sent("make_request", make_request_headers(body)))

SendChatStream(body) ==
    Hand(Sent("make_request_stream", make_request_stream_headers(body)))

SendDownloadStream == Hand(Sent("into_stream", into_stream_headers))

HeadersNext ==
    \/ \E body \in BOOLEAN : SendUnary(body)
    \/ \E body \in BOOLEAN : SendChatStream(body)
    \/ SendDownloadStream

\* The api_key of a configuration
ApiKeys == {None, Some("k1"), Some("k2")}

-----------------------------------------------------------------------------
vars == <<config, reqVars, stVars, chVars, dlVars, concVars, libVars>>

Configs ==
    [max_retries : 0..MaxRetriesBound, retry_delay : 1..MaxDelayBound]

RequestIdle ==
    /\ rq_pc = "idle" /\ retries = 0 /\ outcomes = <<>> /\ sleeps = <<>>
    /\ diag = <<>> /\ result = None

ChatIdle ==
    /\ st_pc = "idle" /\ st_outcomes = <<>> /\ st_result = None
    /\ ch_mode = "next" /\ ch_wire = <<>> /\ ch_pos = 0 /\ ch_tr = "live"
    /\ ch_pc = "idle" /\ items = <<>> /\ chunks = <<>> /\ text = <<>>
    /\ ch_result = None

DownloadIdle ==
    /\ dl_pc = "idle" /\ dl_outcomes = <<>> /\ dl_wire = <<>> /\ dl_pos = 0
    /\ dl_tr = "live" /\ dl_error = "" /\ buffer = <<>> /\ received = <<>>
    /\ records = <<>> /\ yielded = <<>>

ConcurrentIdle == calls = <<>> /\ streams = <<>>

NetIdle == client = with_config(None) /\ requests = <<>>

LibIdle ==
    /\ builder = new /\ built = None /\ script = <<>> /\ probe = None
    /\ NetIdle

\* One call of make_request on a client
InitRequest ==
    /\ config \in Configs
    /\ rq_pc = "send" /\ retries = 0 /\ outcomes = <<>> /\ sleeps = <<>>
    /\ diag = <<>> /\ result = None
    /\ ChatIdle
    /\ DownloadIdle
    /\ ConcurrentIdle
    /\ LibIdle

\* One call of chat_completion_stream on a client, and the use of its stream
InitChat ==
    /\ config \in {c \in Configs : c.max_retries \in {0, MaxRetriesBound} /\ c.retry_delay = 1}
    /\ st_pc = "send" /\ st_outcomes = <<>> /\ st_result = None
    /\ ch_mode \in {"next", "collect", "collect_text"}
    /\ ch_wire \in ChatWires
    /\ ch_pos = 0 /\ ch_tr = "live"
    /\ ch_pc = "idle" /\ items = <<>> /\ chunks = <<>> /\ text = <<>>
    /\ ch_result = None
    /\ RequestIdle
    /\ DownloadIdle
    /\ ConcurrentIdle
    /\ LibIdle

\* One stream of download_progress_stream(..).into_stream()
InitDownload ==
    /\ config \in {c \in Configs : c.max_retries = MaxRetriesBound /\ c.retry_delay = 1}
    /\ dl_pc = "start" /\ dl_outcomes = <<>>
    /\ dl_wire \in DownloadWires
    /\ dl_pos = 0 /\ dl_tr = "live" /\ dl_error = "" /\ buffer = <<>>
    /\ received = <<>> /\ records = <<>> /\ yielded = <<>>
    /\ RequestIdle
    /\ ChatIdle
    /\ ConcurrentIdle
    /\ LibIdle

SpecRequest == InitRequest /\ [][RequestNext]_vars

\* ... when every send().await and every sleep(..).await completes
SpecRequestFair ==
    /\ InitRequest
    /\ [][RequestNext]_vars
    /\ WF_vars(\E o \in SendOutcomes : SendAttempt(o))
    /\ WF_vars(WakeUp)

SpecChat == InitChat /\ [][ChatNext]_vars

SpecDownload == InitDownload /\ [][DownloadNext]_vars

\* Two calls of make_request, or two download-progress streams, on a client
InitConcurrent ==
    /\ config \in {c \in Configs : c.retry_delay = 1}
    /\ \/ calls = <<NewCall, NewCall>> /\ streams = <<>>
       \/ /\ calls = <<>>
          /\ streams \in {<<NewStream(v), NewStream(w)>> : v, w \in ConcurrentWires}
          /\ config.max_retries = 0
    /\ RequestIdle
    /\ ChatIdle
    /\ DownloadIdle
    /\ LibIdle

SpecConcurrent == InitConcurrent /\ [][ConcurrentNext]_vars

\* One ChatRequestBuilder, from new() to build()
InitBuilder ==
    /\ config \in {c \in Configs : c.max_retries = 0 /\ c.retry_delay = 1}
    /\ builder = new /\ built = None /\ script = <<>> /\ probe = None
    /\ NetIdle
    /\ RequestIdle
    /\ ChatIdle
    /\ DownloadIdle
    /\ ConcurrentIdle

SpecBuilder == InitBuilder /\ [][BuilderNext]_vars

\* The parsers, before and after each call
InitParsers ==
    /\ config \in {c \in Configs : c.max_retries = 0 /\ c.retry_delay = 1}
    /\ builder = new /\ built = None /\ script = <<>> /\ probe = None
    /\ NetIdle
    /\ RequestIdle
    /\ ChatIdle
    /\ DownloadIdle
    /\ ConcurrentIdle

SpecParsers == InitParsers /\ [][ParsersNext]_vars

\* A client built by with_config, before its first request
InitHeaders ==
    /\ config \in {c \in Configs : c.retry_delay = 1}
    /\ client \in {with_config(k) : k \in ApiKeys}
    /\ requests = <<>>
    /\ builder = new /\ built = None /\ script = <<>> /\ probe = None
    /\ RequestIdle
    /\ ChatIdle
    /\ DownloadIdle
    /\ ConcurrentIdle

SpecHeaders == InitHeaders /\ [][HeadersNext]_vars

Init == InitRequest \/ InitChat \/ InitDownload

Next == RequestNext \/ ChatNext \/ DownloadNext

Spec == Init /\ [][Next]_vars

-----------------------------------------------------------------------------
(* The retrying request executor *)

Is503(o) == o.kind = "response" /\ o.status = 503
Is2xx(o) == o.kind = "response" /\ o.status \in 200..299
Is5xx(o) == o.kind = "response" /\ o.status \in 500..599
RetryableFailure(o) ==
    Is5xx(o) \/ (o.kind = "error" /\ o.cause \in {"connect", "timeout"})
All503(s) == \A i \in 1..Len(s) : Is503(s[i])
AllRetryable(s) == \A i \in 1..Len(s) : RetryableFailure(s[i])

\* C1: when the transport answers 503 exactly max_retries times and then 200,
\* make_request returns success, having issued exactly max_retries + 1
\* attempts: while the answers are 503 and fewer than max_retries + 1 were
\* made it has not returned, and the 200 that follows is returned as Ok.
C1_RetryThenSuccess ==
    LET n == Len(outcomes)
        m == config.max_retries
    IN /\ (n <= m /\ All503(outcomes)) => (rq_pc # "done" /\ result = None)
       /\ (n = m + 1 /\ All503(SubSeq(outcomes, 1, m)) /\ outcomes[n].status = 200
              /\ outcomes[n].kind = "response")
            => (rq_pc = "done" /\ result = Ok(200) /\ retries = m)

C1_Witness ==
    /\ rq_pc = "done" /\ result = Ok(200)
    /\ config.max_retries = MaxRetriesBound
    /\ Len(outcomes) = config.max_retries + 1
    /\ All503(SubSeq(outcomes, 1, config.max_retries))

\* C2: a non-2xx response whose status is not 5xx ends the request at the
\* attempt that received it, at whatever attempt number: it is the last
\* attempt, its classified error (AuthenticationError for 401 and 403,
\* ModelNotFound for 404, ServerError otherwise) is returned, and no sleep and
\* no retry follow it; a first answer of 404 gives ModelNotFound after exactly
\* one attempt.
C2_FatalStatusEndsRequest ==
    /\ \A i \in 1..Len(outcomes) :
          LET o == outcomes[i] IN
          (o.kind = "response" /\ ~Is2xx(o) /\ ~Is5xx(o)) =>
              /\ i = Len(outcomes)
              /\ rq_pc = "done"
              /\ result.tag = "Err"
              /\ result.val.variant =
                    (CASE o.status \in {401, 403} -> "AuthenticationError"
                       [] o.status = 404 -> "ModelNotFound"
                       [] OTHER -> "ServerError")
              /\ Len(sleeps) = i - 1
              /\ retries = i - 1
    /\ (outcomes # <<>> /\ outcomes[1].kind = "response" /\ outcomes[1].status = 404)
          => (Len(outcomes) = 1 /\ result.tag = "Err"
                /\ result.val.variant = "ModelNotFound")

C2_Witness ==
    /\ rq_pc = "done"
    /\ Len(outcomes) = 3
    /\ Is5xx(outcomes[1])
    /\ outcomes[3].kind = "response" /\ outcomes[3].status = 404
    /\ result.tag = "Err" /\ result.val.variant = "ModelNotFound"

\* C3: one call of make_request issues at most max_retries + 1 attempts and
\* none after a 2xx response; when every attempt fails retryably (5xx
\* responses and connect or timeout errors, in any mix) it issues exactly
\* max_retries + 1 attempts and then returns an error.
C3_AttemptsBounded ==
    /\ Len(outcomes) <= config.max_retries + 1
    /\ \A i \in 1..Len(outcomes) :
          Is2xx(outcomes[i]) =>
              (i = Len(outcomes) /\ rq_pc = "done" /\ result.tag = "Ok")
    /\ AllRetryable(outcomes) =>
          /\ (rq_pc = "done") <=> (Len(outcomes) = config.max_retries + 1)
          /\ rq_pc = "done" => result.tag = "Err"

C3_Witness ==
    /\ rq_pc = "done" /\ result.tag = "Err"
    /\ config.max_retries >= 2
    /\ Len(outcomes) = config.max_retries + 1
    /\ AllRetryable(outcomes)
    /\ \E i, j \in 1..Len(outcomes) :
          outcomes[i].kind = "error" /\ outcomes[j].kind = "response"

-----------------------------------------------------------------------------
(* Streaming requests *)

\* C4: a streaming request makes exactly one attempt, whatever its outcome
\* and whatever max_retries: make_request_stream is either about to send its
\* one request or has returned with the outcome of that request.
C4_StreamSingleAttempt ==
    /\ Len(st_outcomes) <= 1
    /\ st_pc \in {"idle", "send", "open", "failed"}
    /\ st_pc = "send" <=> (Len(st_outcomes) = 0 /\ st_pc # "idle")
    /\ Len(st_outcomes) = 1 => st_result = make_request_stream(st_outcomes[1])

C4_Witness ==
    /\ st_pc = "failed"
    /\ config.max_retries > 0
    /\ Is503(st_outcomes[1])

\* C5: for the chat-completion stream and for the download-progress stream,
\* a non-2xx response is surfaced at once as a terminal error, and no item
\* parsed from its body is yielded.
C5_NonSuccessIsTerminal ==
    /\ (st_outcomes # <<>> /\ ~Is2xx(st_outcomes[1]))
          => (st_result.tag = "Err" /\ items = <<>>)
    /\ (dl_outcomes # <<>> /\ dl_outcomes[1].kind = "response"
              /\ ~Is2xx(dl_outcomes[1]))
          => \A i \in 1..Len(yielded) :
                 yielded[i].tag = "Err" /\ yielded[i].val.variant # "JsonParseError"

-----------------------------------------------------------------------------
(* The download-progress stream *)

\* The records of a text: the texts before each "\n\n", in order
RECURSIVE RecordsOf(_)
RecordsOf(t) ==
    LET e == Find(t, <<NL, NL>>) IN
    IF e = -1 THEN <<>>
    ELSE <<SubSeq(t, 1, e)>> \o RecordsOf(SubSeq(t, e + 3, Len(t)))

\* What the assembler takes out of an input delivered as one chunk
OneChunkRecords(input) == IF ValidUtf8(input) THEN RecordsOf(input) ELSE <<>>

WellFormed(input) ==
    Len(input) >= 2 /\ SubSeq(input, Len(input) - 1, Len(input)) = <<NL, NL>>

\* C6: for a well-formed two-newline-delimited input, cut into chunks at any
\* byte offsets, the assembler takes out the same records as when the input
\* comes as one chunk.
C6_ChunkBoundaryInvariance ==
    (dl_pc = "done" /\ dl_pos = Len(dl_wire) /\ WellFormed(dl_wire))
        => records = OneChunkRecords(dl_wire)

\* The item of a record, by its classification: one item for a DataEvent
\* record, none for any other
ItemOfRecord(rec) ==
    LET c == parse_sse_event(rec) IN
    IF c.tag = "Some" /\ c.val.tag = "DownloadEvent"
    THEN <<ParseDownloadEvent(c.val.val)>>
    ELSE <<>>

RECURSIVE ItemsOfRecords(_)
ItemsOfRecords(recs) ==
    IF recs = <<>> THEN <<>>
    ELSE ItemOfRecord(Head(recs)) \o ItemsOfRecords(Tail(recs))

\* An item that stands for a record: an event, or its parse failure
IsRecordItem(it) == it.tag = "Ok" \/ it.val.variant = "JsonParseError"

\* C7: the items yielded for records are, in order, the items of the
\* delimited records classified as DataEvent, one for each: the items so far
\* are those of the records taken out of the buffer so far, and with the
\* items of the records still in the buffer they are those of all the
\* records of the text received.  An item that stands for no record (a
\* transport error) comes last.
C7_ItemsFollowRecords ==
    LET evs == SelectSeq(yielded, IsRecordItem) IN
    /\ evs = ItemsOfRecords(records)
    /\ evs \o ItemsOfRecords(RecordsOf(buffer)) = ItemsOfRecords(RecordsOf(received))
    /\ \A i \in 1..(Len(yielded) - 1) : IsRecordItem(yielded[i])

C7_Witness ==
    /\ dl_pc = "done"
    /\ Len(records) = 2
    /\ Len(yielded) = 2
    /\ yielded[1].tag = "Err" /\ yielded[1].val.variant = "JsonParseError"
    /\ yielded[2] = Ok(Progress)

-----------------------------------------------------------------------------
(* The chat-completion stream *)

\* The text has a data line whose payload is [DONE]
HasDoneLine(t) ==
    \E i \in 1..Len(Lines(t)) : Trim(Lines(t)[i]) = DataPrefix \o DoneMarker

\* C8: an item parsed from a text with a data line whose payload is [DONE]
\* is a terminal chunk, is_done = true with no parsed payload, whatever lines
\* precede or follow that line.
C8_DoneHasNoPayload ==
    \A i \in 1..Len(items) :
        (items[i].tag = "Ok" /\ HasDoneLine(items[i].val.raw))
            => (items[i].val.is_done /\ items[i].val.chunk = None)

IsDoneItem(it) == it.tag = "Ok" /\ it.val.is_done

\* C9: collect and collect_text pull no item after the first item with
\* is_done = true: that item is the last one pulled and the helper has
\* returned Ok; the vector collect returns holds exactly one is_done item,
\* its last.
C9_NothingReadAfterDone ==
    \A i \in 1..Len(items) :
        (IsDoneItem(items[i]) /\ ch_mode \in {"collect", "collect_text"}) =>
            /\ i = Len(items)
            /\ ch_pc = "returned"
            /\ ch_result.tag = "Ok"
            /\ ch_mode = "collect" =>
                  /\ ch_result.val # <<>>
                  /\ \A j \in 1..Len(ch_result.val) :
                        ch_result.val[j].is_done <=> j = Len(ch_result.val)

C9_Witness ==
    /\ ch_mode = "collect" /\ ch_pc = "returned"
    /\ Len(items) = 2 /\ IsDoneItem(items[2])
    /\ ch_pos < Len(ch_wire)

\* The text is one heartbeat record: its lines are event: heartbeat and
\* data: ping, and blank lines
IsHeartbeatRecord(t) ==
    LET ls == SelectSeq(Lines(t), LAMBDA l : l # <<>>) IN
    ls = <<EventPrefix \o Heartbeat, DataPrefix \o Ping>>

AllHeartbeats(recs) == \A i \in 1..Len(recs) : IsHeartbeatRecord(recs[i])

\* C10: a heartbeat record yields no item on either adapter: the
\* download-progress stream yields none for a heartbeat record it takes out,
\* and the chat-completion stream yields none for a chunk that is a heartbeat
\* record.
C10_HeartbeatYieldsNothing ==
    /\ AllHeartbeats(records) => SelectSeq(yielded, IsRecordItem) = <<>>
    /\ \A i \in 1..Len(items) :
          items[i].tag = "Ok" => ~IsHeartbeatRecord(items[i].val.raw)

\* C10, amended: a heartbeat record yields no item on the download-progress
\* stream (the items yielded for records are no more than the records that
\* are no heartbeat); on the chat-completion stream a chunk that is a
\* heartbeat record yields an item, Ok with chunk = None and
\* is_done = false.
C10_HeartbeatOnEachAdapter ==
    /\ Len(SelectSeq(yielded, IsRecordItem))
          <= Cardinality({i \in 1..Len(records) : ~IsHeartbeatRecord(records[i])})
    /\ \A i \in 1..Len(items) :
          (items[i].tag = "Ok" /\ IsHeartbeatRecord(items[i].val.raw))
              => (items[i].val.chunk = None /\ ~items[i].val.is_done)

C10_Witness ==
    \E i \in 1..Len(items) :
        items[i].tag = "Ok" /\ IsHeartbeatRecord(items[i].val.raw)

-----------------------------------------------------------------------------
(* The download-progress stream: errors *)

IsStreamError(it) == it.tag = "Err" /\ it.val.variant = "StreamError"

\* The text of the error names the end of the connection
NamesConnectionEnd(c) ==
    \E w \in {"connection closed", "stream ended", "connection reset"} :
        Contains(ErrorText(c), w)

\* C11: when the transport of a download-progress stream raises an error
\* whose text contains "connection closed", "stream ended" or "connection
\* reset", the stream ends and yields no error item for it; when it raises
\* any other error the stream yields exactly one StreamError item, its last
\* item, and ends.
C11_TransportErrorEndsStream ==
    dl_error # "" =>
        /\ dl_pc = "done"
        /\ IF NamesConnectionEnd(dl_error)
           THEN \A i \in 1..Len(yielded) : ~IsStreamError(yielded[i])
           ELSE /\ yielded # <<>>
                /\ yielded[Len(yielded)] = Err(StreamError(dl_error))
                /\ \A i \in 1..(Len(yielded) - 1) : ~IsStreamError(yielded[i])

C11_Witness ==
    /\ dl_error = "dns"
    /\ Len(yielded) = 2
    /\ yielded[1] = Ok(Progress)
    /\ IsStreamError(yielded[2])

IsJsonParseError(it) == it.tag = "Err" /\ it.val.variant = "JsonParseError"

\* C12: a DataEvent record whose payload fails deserialization yields one
\* error item and is fatal to the download-progress stream: no item of a
\* later record is yielded after that error item.
C12_MalformedPayloadIsFatal ==
    \A i \in 1..Len(yielded) :
        IsJsonParseError(yielded[i]) =>
            \A j \in (i + 1)..Len(yielded) : ~IsRecordItem(yielded[j])

-----------------------------------------------------------------------------
(* The chat-completion stream: payloads *)

\* The payloads of the data lines of a text, in line order
RECURSIVE PayloadsOfLines(_)
PayloadsOfLines(lines) ==
    IF lines = <<>> THEN <<>>
    ELSE LET line == Trim(Head(lines)) IN
         (IF StartsWith(line, DataPrefix) THEN <<From(line, 6)>> ELSE <<>>)
             \o PayloadsOfLines(Tail(lines))

DataPayloads(t) == PayloadsOfLines(Lines(t))

\* The text has data lines, none of them [DONE], and no payload is a chat
\* delta
MalformedOnly(t) ==
    LET ps == DataPayloads(t) IN
    /\ ps # <<>>
    /\ \A k \in 1..Len(ps) : ps[k] # DoneMarker /\ ParseChatChunk(ps[k]) = None

\* The text the adapter parses when the transport hands over the next bytes
DeliveredText == from_utf8_lossy(SubSeq(ch_wire, ch_pos + 1, ch_pos'))

-----------------------------------------------------------------------------
(* The download-progress stream: records that carry no event *)

IsKeepAliveRecord(rec) == parse_sse_event(rec) = Some(KeepAlive)
IsUnrecognizedRecord(rec) == parse_sse_event(rec) = None
IsDataEventRecord(rec) ==
    parse_sse_event(rec).tag = "Some" /\ parse_sse_event(rec).val.tag = "DownloadEvent"

\* The payload of the last data line of a record that has one
LastData(rec) ==
    LET ds == SelectSeq(Lines(rec), LAMBDA l : StartsWith(l, DataPrefix))
    IN From(ds[Len(ds)], 6)

\* The record a step takes out of the buffer
TakenOut == records'[Len(records')]

\* C14: a record classified KeepAlive or Unrecognized yields no item and
\* does not end the stream, which goes on to the next record or the next
\* chunk; a DataEvent record, whatever records were taken out before it,
\* yields its item.
C14_SkippedRecordsDoNotEndStream ==
    [][records' # records =>
          /\ (IsKeepAliveRecord(TakenOut) \/ IsUnrecognizedRecord(TakenOut)) =>
                (yielded' = yielded /\ dl_pc' \in {"scan", "recv"})
          /\ IsDataEventRecord(TakenOut) =>
                yielded' = Append(yielded, ParseDownloadEvent(LastData(TakenOut)))]_vars

C14_Witness ==
    /\ Len(records) = 2
    /\ IsUnrecognizedRecord(records[1]) \/ IsKeepAliveRecord(records[1])
    /\ records[2] = DataPrefix \o Progress
    /\ yielded = <<Ok(Progress)>>

-----------------------------------------------------------------------------
(* The retrying request executor: classification *)

IsTransportError(o) == o.kind = "error"

\* The attempt numbered i was followed by a sleep of retry_delay and, once
\* the sleep was over, by another attempt
WasRetried(i) ==
    /\ Len(sleeps) >= i /\ sleeps[i] = config.retry_delay
    /\ retries >= i
    /\ rq_pc # "done" \/ Len(outcomes) > i

\* The attempt numbered i was the last, and its error was returned
WasReturned(i, error) ==
    /\ i = Len(outcomes) /\ rq_pc = "done" /\ result = Err(error)
    /\ Len(sleeps) = i - 1 /\ retries = i - 1

\* C16: an attempt that fails with a connect or timeout error is handled as
\* one that got a 5xx response: retried after the delay while fewer than
\* max_retries retries were taken, returned as the error otherwise; an
\* attempt that fails with any other transport error is returned at once.
C16_TransportErrorBranching ==
    \A i \in 1..Len(outcomes) :
        LET o == outcomes[i] IN
        /\ (IsTransportError(o) /\ o.cause \in {"connect", "timeout"}) =>
              IF i - 1 < config.max_retries
              THEN WasRetried(i)
              ELSE WasReturned(i, HttpError(o.cause))
        /\ (IsTransportError(o) /\ o.cause \notin {"connect", "timeout"}) =>
              WasReturned(i, HttpError(o.cause))
        /\ Is5xx(o) =>
              IF i - 1 < config.max_retries
              THEN WasRetried(i)
              ELSE i = Len(outcomes) /\ rq_pc = "done" /\ result.tag = "Err"

C16_Witness ==
    /\ rq_pc = "done"
    /\ config.max_retries >= 2
    /\ Len(outcomes) = 3
    /\ IsTransportError(outcomes[1]) /\ outcomes[1].cause = "connect"
    /\ IsTransportError(outcomes[2]) /\ outcomes[2].cause = "timeout"
    /\ IsTransportError(outcomes[3]) /\ outcomes[3].cause = "request"
    /\ result = Err(HttpError("request"))

\* The error class a status stands for, with the status and the body text
ClassOf(status, body) ==
    IF status \in {401, 403}
    THEN [variant |-> "AuthenticationError", status |-> 0, message |-> body, cause |-> ""]
    ELSE IF status = 404
    THEN [variant |-> "ModelNotFound", status |-> 0, message |-> body, cause |-> ""]
    ELSE [variant |-> "ServerError", status |-> status, message |-> body, cause |-> ""]

IsFailedResponse(o) == o.kind = "response" /\ ~Is2xx(o)

\* C17: from_response maps every status code to one error class: 401 and
\* 403 to AuthenticationError, 404 to ModelNotFound, every other status to
\* ServerError with that status and the body (for every status from 100 to
\* 599, looked at before the first attempt); so is the error of every
\* failed response classified, the ones retried (in the warning logged) and
\* the one returned.
C17_StatusClassification ==
    /\ outcomes = <<>> =>
          \A status \in 100..599 : \A body \in {"overloaded", "Unknown error", ""} :
              from_response(status, body) = ClassOf(status, body)
    /\ \A k \in 1..Len(diag) :
          IsFailedResponse(outcomes[k]) =>
              diag[k].error = ClassOf(outcomes[k].status, error_body(outcomes[k].body))
    /\ (rq_pc = "done" /\ IsFailedResponse(outcomes[Len(outcomes)])) =>
          result = Err(ClassOf(outcomes[Len(outcomes)].status,
                               error_body(outcomes[Len(outcomes)].body)))

C17_Witness ==
    /\ rq_pc = "done"
    /\ Len(outcomes) = 2
    /\ outcomes[1].kind = "response" /\ outcomes[1].status = 599
    /\ outcomes[2].kind = "response" /\ outcomes[2].status = 403
    /\ outcomes[2].body.ok
    /\ diag[1].error.variant = "ServerError" /\ diag[1].error.status = 599
    /\ result.val.variant = "AuthenticationError"
    /\ result.val.message = "overloaded"

\* C18: an error classified from a status is retryable exactly when the
\* status is in 500..=599: ServerError with a 5xx status is, ServerError
\* with any other status, AuthenticationError and ModelNotFound are not; so
\* a failed response that leaves retries to take is retried exactly when
\* its status is 5xx.
C18_RetryableIffServerFault ==
    /\ outcomes = <<>> =>
          \A status \in 100..599 :
              /\ is_retryable(from_response(status, "")) <=> status \in 500..599
              /\ is_retryable(ServerError(status, "")) <=> status \in 500..599
    /\ ~is_retryable(AuthenticationError(""))
    /\ ~is_retryable(ModelNotFound(""))
    /\ \A i \in 1..Len(outcomes) :
          (IsFailedResponse(outcomes[i]) /\ i - 1 < config.max_retries) =>
              /\ WasRetried(i) <=> Is5xx(outcomes[i])
              /\ ~Is5xx(outcomes[i]) => (i = Len(outcomes) /\ rq_pc = "done")

C18_Witness ==
    /\ rq_pc = "done"
    /\ config.max_retries = MaxRetriesBound
    /\ Len(outcomes) = 3
    /\ outcomes[1].kind = "response" /\ outcomes[1].status = 500
    /\ outcomes[2].kind = "response" /\ outcomes[2].status = 599
    /\ outcomes[3].kind = "response" /\ outcomes[3].status = 600
    /\ result.tag = "Err" /\ result.val.variant = "ServerError"

-----------------------------------------------------------------------------
(* The chat-completion stream: items and text *)

\* The text has data lines, none of them [DONE]
HasPayloadLines(t) ==
    /\ DataPayloads(t) # <<>>
    /\ \A k \in 1..Len(DataPayloads(t)) : DataPayloads(t)[k] # DoneMarker

\* One parsed payload for each data line of each text, in line order
RECURSIVE PerLineChunks(_)
PerLineChunks(its) ==
    IF its = <<>> THEN <<>>
    ELSE LET ps == DataPayloads(Head(its).val.raw) IN
         [k \in 1..Len(ps) |-> ParseChatChunk(ps[k])] \o PerLineChunks(Tail(its))

\* C19: the chat-completion stream yields one item per data: line: when
\* every transport chunk carries data: lines (none of them [DONE]), the
\* items are, in order, one for each line of each chunk, with the payload
\* of that line.
C19_OneItemPerDataLine ==
    (\A i \in 1..Len(items) :
         items[i].tag = "Ok" /\ HasPayloadLines(items[i].val.raw))
        => [i \in 1..Len(items) |-> items[i].val.chunk] = PerLineChunks(items)

\* The delta content an item carries: nothing without a parsed payload,
\* without a choice or without content
DeltaText(it) ==
    IF it.val.chunk = None THEN <<>>
    ELSE IF it.val.chunk.val.choices = <<>> THEN <<>>
    ELSE IF it.val.chunk.val.choices[1].content = None THEN <<>>
    ELSE it.val.chunk.val.choices[1].content.val

\* The items up to and including the first is_done item, or all of them
RECURSIVE UpToDone(_)
UpToDone(its) ==
    IF its = <<>> THEN <<>>
    ELSE IF IsDoneItem(Head(its)) THEN <<Head(its)>>
    ELSE <<Head(its)>> \o UpToDone(Tail(its))

RECURSIVE TextOf(_)
TextOf(its) ==
    IF its = <<>> THEN <<>> ELSE DeltaText(Head(its)) \o TextOf(Tail(its))

\* C20: collect_text returns the concatenation, in arrival order, of the
\* delta content of the items that have a parsed payload, up to and
\* including the first is_done item or the end of the stream; it returns at
\* that item or at that end, and an item that is an error is returned as
\* the error.
C20_CollectTextConcatenates ==
    ch_mode = "collect_text" =>
        /\ (ch_pc = "returned" /\ ch_result.tag = "Ok") =>
              /\ \A i \in 1..Len(items) : items[i].tag = "Ok"
              /\ ch_result.val = TextOf(UpToDone(items))
              /\ (items # <<>> /\ IsDoneItem(items[Len(items)])) \/ ch_tr = "ended"
                    \/ ch_pos = Len(ch_wire)
        /\ (ch_pc = "pulling" /\ ch_result = None) =>
              /\ \A i \in 1..Len(items) : items[i].tag = "Ok" /\ ~IsDoneItem(items[i])
              /\ text = TextOf(items)

C20_Witness ==
    /\ ch_mode = "collect_text" /\ ch_pc = "returned"
    /\ Len(items) = 2
    /\ items[1].tag = "Ok" /\ items[1].val.chunk = None
    /\ ch_result = Ok(<<"l", "o">>)

-----------------------------------------------------------------------------
(* Calls and streams side by side *)

\* A call of make_request that runs alone, after the outcomes outs of its
\* attempts, n retries taken: what it has returned, if it has, and the
\* outcomes it has had no attempt for
RECURSIVE AloneCall(_, _)
AloneCall(outs, n) ==
    IF outs = <<>>
    THEN [done |-> FALSE, retries |-> n, result |-> None, unused |-> <<>>]
    ELSE LET o == Head(outs) IN
         IF Is2xx(o)
         THEN [done |-> TRUE, retries |-> n, result |-> Ok(o.status),
               unused |-> Tail(outs)]
         ELSE IF RetryableFailure(o) /\ n < config.max_retries
         THEN AloneCall(Tail(outs), n + 1)
         ELSE [done |-> TRUE, retries |-> n, result |-> Err(AttemptError(o)),
               unused |-> Tail(outs)]

\* The records of a buffer leave it, and their items are yielded
RECURSIVE DrainAll(_, _)
DrainAll(buf, ys) ==
    IF HasEvent(buf)
    THEN DrainAll(Drained(buf), ys \o ItemOfRecord(EventData(buf)))
    ELSE [buffer |-> buf, yielded |-> ys]

\* A download-progress stream that runs alone, after the answers got of its
\* body stream
RECURSIVE AloneBody(_, _, _)
AloneBody(got, buf, ys) ==
    IF got = <<>> THEN [done |-> FALSE, buffer |-> buf, yielded |-> ys]
    ELSE LET r == Head(got) IN
         CASE r.kind = "chunk" ->
                IF ValidUtf8(r.bytes)
                THEN LET d == DrainAll(buf \o r.bytes, ys)
                     IN AloneBody(Tail(got), d.buffer, d.yielded)
                ELSE AloneBody(Tail(got), buf, ys)
           [] r.kind = "error" ->
                [done |-> TRUE, buffer |-> buf,
                 yielded |-> IF NamesConnectionEnd(r.cause) THEN ys
                             ELSE Append(ys, Err(StreamError(r.cause)))]
           [] OTHER -> [done |-> TRUE, buffer |-> buf, yielded |-> ys]

AloneStream(sent, got) ==
    IF sent = <<>> THEN [done |-> FALSE, buffer |-> <<>>, yielded |-> <<>>]
    ELSE IF sent[1].kind = "error"
    THEN [done |-> TRUE, buffer |-> <<>>,
          yielded |-> <<Err(HttpError(sent[1].cause))>>]
    ELSE AloneBody(got, <<>>, <<>>)

\* C15: two calls of make_request, or two streams, that run side by side
\* on one client share no state: however their steps interleave, each call
\* has made the attempts, taken the retries and returned the result it makes,
\* takes and returns alone on the same outcomes, and each stream has the
\* buffer and the yielded items it has alone on the same answers of its
\* transport.
C15_NoSharedState ==
    /\ \A p \in DOMAIN calls :
          LET a == AloneCall(calls[p].outcomes, 0) IN
          /\ a.unused = <<>>
          /\ a.done <=> calls[p].pc = "done"
          /\ calls[p].retries = a.retries
          /\ calls[p].result = a.result
    /\ \A p \in DOMAIN streams :
          LET a == AloneStream(streams[p].requests, streams[p].got) IN
          /\ a.done <=> streams[p].pc = "done"
          /\ DrainAll(streams[p].buffer, streams[p].yielded)
                = [buffer |-> a.buffer, yielded |-> a.yielded]
          /\ streams[p].pc # "scan" => streams[p].buffer = a.buffer

C15_Witness ==
    /\ Len(calls) = 2
    /\ calls[1].pc = "done" /\ calls[2].pc = "done"
    /\ calls[1].retries = 2 /\ calls[1].result = Ok(200)
    /\ calls[2].retries = 1 /\ calls[2].result.tag = "Err"
    /\ config.max_retries >= 2

\* Two streams side by side, each through to its end
C15_StreamsSideBySide ==
    /\ Len(streams) = 2
    /\ streams[1].pc = "done" /\ streams[2].pc = "done"
    /\ streams[1].yielded = <<Ok(Progress)>>
    /\ Len(streams[1].got) = 3
    /\ Len(streams[2].yielded) = 2

-----------------------------------------------------------------------------
(* The chat-completion stream: errors *)

\* C21: collect and collect_text propagate hard errors: the first Err item
\* of the stream is the last item they pull, and what they return is that
\* error, not the chunks or the text gathered before it.
C21_CollectPropagatesErrors ==
    \A i \in 1..Len(items) :
        (items[i].tag = "Err" /\ ch_mode \in {"collect", "collect_text"}) =>
            /\ i = Len(items)
            /\ ch_pc = "returned"
            /\ ch_result = Err(items[i].val)

C21_Witness ==
    /\ ch_mode = "collect_text" /\ ch_pc = "returned"
    /\ Len(items) = 2
    /\ items[1].tag = "Ok" /\ items[1].val.chunk = ParseChatChunk(Hel)
    /\ items[2] = Err(HttpError("decode"))
    /\ text = <<"H", "e", "l">>
    /\ ch_result = items[2]

-----------------------------------------------------------------------------
(* The download-progress stream: its one request, and its end *)

\* C22: a download-progress stream issues exactly one HTTP request,
\* whatever ends it: it has requests none before its first poll and one ever
\* after, and once it has ended it sends nothing and yields nothing more.
C22_OneRequestPerStream ==
    /\ [](/\ Len(dl_outcomes) <= 1
          /\ dl_pc \in {"recv", "scan", "done"} => Len(dl_outcomes) = 1)
    /\ [][dl_pc = "done" =>
             (dl_pc' = "done" /\ dl_outcomes' = dl_outcomes /\ yielded' = yielded)]_vars

C22_Witness ==
    /\ dl_pc = "done"
    /\ dl_error = "decode"
    /\ Len(dl_outcomes) = 1
    /\ Len(yielded) = 2 /\ yielded[1] = Ok(Progress) /\ IsStreamError(yielded[2])

-----------------------------------------------------------------------------
(* The chat request builder *)

IsRoleCall(call) == call.op \in {"message", "user", "assistant", "system"}

\* The messages a script asks for: one for each call of a role method
RECURSIVE MessagesOf(_)
MessagesOf(sc) ==
    IF sc = <<>> THEN <<>>
    ELSE (IF IsRoleCall(Head(sc))
          THEN <<[role |-> Head(sc).role, content |-> Head(sc).text, name |-> None]>>
          ELSE <<>>) \o MessagesOf(Tail(sc))

\* The last call of a method in a script, if it has one
LastCall(sc, op) ==
    LET cs == SelectSeq(sc, LAMBDA c : c.op = op) IN
    IF cs = <<>> THEN None ELSE Some(cs[Len(cs)])

\* C23: build() returns the messages in the order the role methods were
\* called, each with the role and the content given, and the model and
\* max_tokens last set (the model "default" and no max_tokens when none was
\* set); user("hi"), model("m"), max_tokens(10) gives the one message of
\* user hi, the model m and max_tokens Some(10).
C23_BuilderRoundTrip ==
    built # None =>
        /\ built.messages = MessagesOf(script)
        /\ built.model = IF LastCall(script, "model") = None THEN "default"
                         ELSE LastCall(script, "model").val.text
        /\ built.max_tokens = IF LastCall(script, "max_tokens") = None THEN None
                              ELSE Some(LastCall(script, "max_tokens").val.num)
        /\ script = <<Call("user", "user", "hi", 0, FALSE),
                      Call("model", "", "m", 0, FALSE),
                      Call("max_tokens", "", "", 10, FALSE)>> =>
              /\ built.messages = <<[role |-> "user", content |-> "hi", name |-> None]>>
              /\ built.model = "m"
              /\ built.max_tokens = Some(10)

C23_Witness ==
    /\ built # None
    /\ script = <<Call("user", "user", "hi", 0, FALSE),
                  Call("model", "", "m", 0, FALSE),
                  Call("max_tokens", "", "", 10, FALSE)>>
    /\ Len(built.messages) = 1

-----------------------------------------------------------------------------
(* The parsers as functions of their text *)

\* A text cut at each sep met from the left, one byte at a time; cur is the
\* piece being read
RECURSIVE CutAt(_, _, _, _)
CutAt(b, sep, i, cur) ==
    IF i > Len(b) THEN <<cur>>
    ELSE IF i + Len(sep) - 1 <= Len(b) /\ \A k \in 1..Len(sep) : b[i + k - 1] = sep[k]
    THEN <<cur>> \o CutAt(b, sep, i + Len(sep), <<>>)
    ELSE CutAt(b, sep, i + 1, Append(cur, b[i]))

IsBlank(seg) == \A i \in 1..Len(seg) : seg[i] \in {" ", "\t", "\n", "\r"}

NonBlankSegments(b) == SelectSeq(CutAt(b, <<NL, NL>>, 1, <<>>), LAMBDA seg : ~IsBlank(seg))

\* The segment has a line that is  data: [DONE]
SegmentIsDone(seg) ==
    \E i \in 1..Len(CutAt(seg, <<NL>>, 1, <<>>)) :
        Trim(CutAt(seg, <<NL>>, 1, <<>>)[i]) = DataPrefix \o DoneMarker

\* C24: parse_sse_buffer returns one result for each non-blank segment of
\* the buffer split on two consecutive newlines, in the order of the
\* segments, each an Ok holding its segment; the result of a segment whose
\* data payload is [DONE] has is_done = true; blank segments have no result.
C24_OneResultPerSegment ==
    (probe # None /\ probe.fn = "parse_sse_buffer") =>
        LET segs == NonBlankSegments(probe.input) IN
        /\ Len(probe.output) = Len(segs)
        /\ \A i \in 1..Len(segs) :
              /\ probe.output[i].tag = "Ok"
              /\ probe.output[i].val.raw = segs[i]
              /\ SegmentIsDone(segs[i]) => probe.output[i].val.is_done
              /\ segs[i] = DataPrefix \o Hel =>
                    probe.output[i].val = StreamChunk(segs[i], ParseChatChunk(Hel), FALSE)

C24_Witness ==
    /\ probe # None /\ probe.fn = "parse_sse_buffer"
    /\ probe.input = DataPrefix \o Hel \o <<NL, NL>> \o <<" ">> \o <<NL, NL>>
                         \o DataPrefix \o DoneMarker
    /\ Len(probe.output) = 2
    /\ probe.output[1].val.chunk = ParseChatChunk(Hel) /\ ~probe.output[1].val.is_done
    /\ probe.output[2].val.is_done /\ probe.output[2].val.chunk = None

\* The lines of a record that begin with a prefix, in order, prefix removed
FieldsOf(rec, prefix) ==
    LET ls == SelectSeq(CutAt(rec, <<NL>>, 1, <<>>), LAMBDA l : StartsWith(l, prefix)) IN
    [i \in 1..Len(ls) |-> SubSeq(ls[i], Len(prefix) + 1, Len(ls[i]))]

\* The last field of a kind, if the record has one
LastField(rec, prefix) ==
    IF FieldsOf(rec, prefix) = <<>> THEN None
    ELSE Some(FieldsOf(rec, prefix)[Len(FieldsOf(rec, prefix))])

HasCommentLine(rec) == FieldsOf(rec, <<":">>) # <<>>

IsJsonEnvelope(d) == d # <<>> /\ d[1] = "{" /\ d[Len(d)] = "}"

\* The first rule of the five that matches the record
RuleClass(rec) ==
    LET ev == LastField(rec, EventPrefix)
        da == LastField(rec, DataPrefix)
    IN IF ev = Some(Heartbeat) /\ da = Some(Ping)
       THEN Some([tag |-> "Heartbeat", val |-> <<>>])
       ELSE IF ev = None /\ da = Some(KeepAliveText)
       THEN Some([tag |-> "KeepAlive", val |-> <<>>])
       ELSE IF da # None /\ IsJsonEnvelope(da.val)
       THEN Some([tag |-> "DownloadEvent", val |-> da.val])
       ELSE IF ev = None /\ (da = None \/ da = Some(<<>>)) /\ HasCommentLine(rec)
       THEN Some([tag |-> "KeepAlive", val |-> <<>>])
       ELSE None

\* C25: parse_sse_event classifies every record text, by the first rule
\* that matches of: (1) event heartbeat and data ping: Heartbeat; (2) no
\* event label and data keep-alive: KeepAlive; (3) data that starts with {
\* and ends with }: DataEvent with that payload, whatever the label; (4) no
\* event label, empty or absent data and a comment line: KeepAlive;
\* (5) anything else: not classified.
C25_FirstMatchingRule ==
    (probe # None /\ probe.fn = "parse_sse_event") =>
        probe.output = RuleClass(probe.input)

C25_Witness ==
    /\ probe # None /\ probe.fn = "parse_sse_event"
    /\ probe.input = EventPrefix \o Heartbeat \o <<NL>> \o DataPrefix \o Progress
    /\ probe.output = Some(DownloadEventOf(Progress))

\* The record with its earlier event: lines and earlier data: lines removed
RECURSIVE DropEarlier(_, _)
DropEarlier(ls, i) ==
    IF i > Len(ls) THEN <<>>
    ELSE (IF \E p \in {EventPrefix, DataPrefix} :
                 /\ StartsWith(ls[i], p)
                 /\ \E j \in (i + 1)..Len(ls) : StartsWith(ls[j], p)
          THEN <<>> ELSE <<ls[i]>>) \o DropEarlier(ls, i + 1)

Reduced(rec) == JoinWith(DropEarlier(CutAt(rec, <<NL>>, 1, <<>>), 1), <<NL>>)

\* C26: of several event: lines, and of several data: lines, of a record
\* only the last counts: the record is classified as the record without
\* the earlier ones is, and a payload delivered is that of the last data:
\* line alone.
C26_LastLineWins ==
    (probe # None /\ probe.fn = "parse_sse_event") =>
        /\ probe.output = parse_sse_event(Reduced(probe.input))
        /\ (probe.output # None /\ probe.output.val.tag = "DownloadEvent") =>
              probe.output.val.val = LastField(probe.input, DataPrefix).val

C26_Witness ==
    /\ probe # None /\ probe.fn = "parse_sse_event"
    /\ probe.input = DataPrefix \o Progress \o <<NL>> \o EventPrefix \o <<"p">> \o <<NL>>
                         \o DataPrefix \o Complete
    /\ Reduced(probe.input) = EventPrefix \o <<"p">> \o <<NL>> \o DataPrefix \o Complete
    /\ probe.output = Some(DownloadEventOf(Complete))

-----------------------------------------------------------------------------
(* The download-progress stream: chunks that are dropped, text that is left *)

\* The bytes the transport hands over in a step
DownloadChunk == SubSeq(dl_wire, dl_pos + 1, dl_pos')

\* Bytes that are no UTF-8 text: a lead byte without its continuation byte,
\* or a continuation byte without its lead byte
IllFormed(b) ==
    \E i \in 1..Len(b) :
        \/ b[i] = "xC3" /\ (i = Len(b) \/ b[i + 1] # "xA9")
        \/ b[i] = "xA9" /\ (i = 1 \/ b[i - 1] # "xC3")

AllButLast(sq) == SubSeq(sq, 1, Len(sq) - 1)

\* C27: a transport chunk that is no UTF-8 text is dropped: the buffer stays
\* as it was, nothing is yielded for the chunk, and the stream goes on
\* reading; a chunk that is UTF-8 text is added to the buffer, so that the
\* delimited records of the chunks kept are all taken out and their items
\* yielded, the records of chunks that come after a dropped one too.
C27_BadChunkDropped ==
    /\ [][(dl_pos' > dl_pos /\ IllFormed(DownloadChunk)) =>
             /\ buffer' = buffer /\ received' = received
             /\ yielded' = yielded /\ records' = records
             /\ dl_pc' = "recv" /\ dl_error' = ""]_vars
    /\ [][(dl_pos' > dl_pos /\ ~IllFormed(DownloadChunk)) =>
             /\ buffer' = buffer \o DownloadChunk
             /\ received' = received \o DownloadChunk]_vars
    /\ [](dl_pc \in {"recv", "done"} =>
             /\ records = AllButLast(CutAt(received, <<NL, NL>>, 1, <<>>))
             /\ SelectSeq(yielded, IsRecordItem) = ItemsOfRecords(records))

C27_Witness ==
    /\ dl_pc = "done" /\ dl_error = ""
    /\ dl_wire = DataPrefix \o Accent \o <<NL, NL>> \o DataPrefix \o Progress \o <<NL, NL>>
    /\ dl_pos = Len(dl_wire)
    /\ received = DataPrefix \o Progress \o <<NL, NL>>
    /\ yielded = <<ParseDownloadEvent(Progress)>>

\* C28: when the body of the response ends, what is in the buffer after
\* the last delimiter is left there: the records taken out are the
\* delimited ones alone, the items are theirs, none is an error item, and
\* the step that ends the stream yields nothing.
C28_TrailingContentDiscarded ==
    /\ []((dl_pc = "done" /\ dl_tr = "ended" /\ dl_error = "") =>
             LET pieces == CutAt(received, <<NL, NL>>, 1, <<>>) IN
             /\ records = AllButLast(pieces)
             /\ buffer = pieces[Len(pieces)]
             /\ yielded = ItemsOfRecords(AllButLast(pieces))
             /\ \A i \in 1..Len(yielded) : ~IsStreamError(yielded[i]))
    /\ [][(dl_pc # "done" /\ dl_pc' = "done" /\ dl_tr' = "ended" /\ dl_error' = "") =>
             (yielded' = yielded /\ records' = records)]_vars

C28_Witness ==
    /\ dl_pc = "done" /\ dl_tr = "ended" /\ dl_error = ""
    /\ dl_pos = Len(dl_wire)
    /\ received = dl_wire
    /\ buffer = DataPrefix \o Progress \o <<NL>>
    /\ records = <<EventLine(<<"p">>) \o DataPrefix \o Complete>>
    /\ yielded = <<ParseDownloadEvent(Complete)>>

-----------------------------------------------------------------------------
(* The chat adapter: each chunk on its own *)

\* The offsets in a body at which a data: line begins
DataLineStarts(wire) ==
    {t \in 0..(Len(wire) - 6) :
        /\ (t = 0 \/ wire[t] = NL)
        /\ \A k \in 1..6 : wire[t + k] = DataPrefix[k]}

\* The payload of the data: line at an offset: the text up to the newline
PayloadAt(wire, s) ==
    LET ends == {e \in (s + 6)..Len(wire) : e = Len(wire) \/ wire[e + 1] = NL} IN
    SubSeq(wire, s + 7, CHOOSE e \in ends : \A f \in ends : e <= f)

\* The offset in the body at which chunk k ends, when the items so far are
\* all chunks
RECURSIVE CutAfter(_)
CutAfter(k) == IF k = 0 THEN 0 ELSE CutAfter(k - 1) + Len(items[k].val.raw)

\* The parse of a text taken by itself: the payload of its last data: line
\* before a [DONE] line, if it is a chat delta
ParsedAlone(t) ==
    LET ls == CutAt(t, <<NL>>, 1, <<>>)
        isData(l) == StartsWith(Trim(l), DataPrefix)
        payload(l) == SubSeq(Trim(l), 7, Len(Trim(l)))
        done == {i \in 1..Len(ls) : isData(ls[i]) /\ payload(ls[i]) = DoneMarker}
        upto == IF done = {} THEN Len(ls) ELSE (CHOOSE i \in done : \A j \in done : i <= j) - 1
        datas == {i \in 1..upto : isData(ls[i])}
        last == CHOOSE i \in datas : \A j \in datas : j <= i
    IN [chunk |-> IF datas = {} \/ IsBlank(t) THEN None ELSE ParseChatChunk(payload(ls[last])),
        is_done |-> done # {} /\ ~IsBlank(t)]

\* C29: the item for a transport chunk is the parse of the bytes of that
\* chunk taken alone, whatever came before; so when a chunk ends inside a
\* data: line whose payload is a chat delta, neither the item of that chunk
\* nor the item of the next one carries that delta.
C29_ChunksParsedAlone ==
    /\ [][(ch_pos' > ch_pos) =>
             /\ Len(items') = Len(items) + 1
             /\ items'[Len(items')] =
                   Ok([raw |-> DeliveredText] @@ ParsedAlone(DeliveredText))]_vars
    /\ [](\A k \in 1..Len(items) : \A s \in DataLineStarts(ch_wire) :
             (/\ \A j \in 1..k : items[j].tag = "Ok"
              /\ s < CutAfter(k)
              /\ CutAfter(k) < s + 6 + Len(PayloadAt(ch_wire, s))
              /\ ParseChatChunk(PayloadAt(ch_wire, s)) # None) =>
                 /\ items[k].val.chunk # ParseChatChunk(PayloadAt(ch_wire, s))
                 /\ (k < Len(items) /\ items[k + 1].tag = "Ok") =>
                       items[k + 1].val.chunk # ParseChatChunk(PayloadAt(ch_wire, s)))

C29_Witness ==
    /\ ch_wire = DataLine(Hel) \o Blank \o DataLine(Lo) \o Blank
    /\ Len(items) = 2 /\ ch_pos = Len(ch_wire)
    /\ items[1].tag = "Ok" /\ items[2].tag = "Ok"
    /\ items[1].val.raw = DataPrefix \o <<"{", "<hel>">>
    /\ items[1].val.chunk = None
    /\ items[2].val.chunk = ParseChatChunk(Lo)

-----------------------------------------------------------------------------
(* The delay between the attempts of a unary request *)

\* C30: every sleep of a request lasts the retry_delay of the client,
\* whatever the number of the attempt; there is one sleep between an attempt
\* and the next, none before the first attempt and none after the last.
C30_ConstantRetryDelay ==
    /\ [](/\ \A i \in 1..Len(sleeps) : sleeps[i] = config.retry_delay
          /\ rq_pc \in {"send", "sleep"} => Len(sleeps) = Len(outcomes)
          /\ rq_pc = "done" => Len(sleeps) = Len(outcomes) - 1)
    /\ [][sleeps' # sleeps =>
             /\ sleeps' = Append(sleeps, config.retry_delay)
             /\ Len(outcomes') = Len(outcomes) + 1
             /\ rq_pc' = "sleep"]_vars
    /\ [][rq_pc = "sleep" => (rq_pc' = "send" /\ outcomes' = outcomes)]_vars

C30_Witness ==
    /\ rq_pc = "done"
    /\ config.retry_delay = 2
    /\ Len(outcomes) = 3
    /\ sleeps = <<2, 2>>
    /\ result.tag = "Ok"

-----------------------------------------------------------------------------
(* The diagnostics and the error of a unary request *)

\* The error a failed attempt stands for: by its status and body, or by
\* its transport error
ClassifiedError(o) ==
    LET msg == IF o.body.ok THEN o.body.text ELSE "Unknown error" IN
    IF o.kind = "response"
    THEN [variant |-> IF o.status \in {401, 403} THEN "AuthenticationError"
                      ELSE IF o.status = 404 THEN "ModelNotFound"
                      ELSE "ServerError",
          status |-> IF o.status \in {401, 403, 404} THEN 0 ELSE o.status,
          message |-> msg, cause |-> ""]
    ELSE [variant |-> "HttpError", status |-> 0, message |-> "", cause |-> o.cause]

\* C31: a retry diagnostic is emitted exactly when a retry is taken: after
\* a attempts that were all retried there are a diagnostics, and a request
\* that returned after a attempts has a - 1; the k-th has the attempt
\* number k and the error of attempt k; the attempt whose result is returned
\* emits none; whether an attempt is retried is decided by its outcome and
\* the number of attempts, not by the diagnostics.
C31_DiagnosticPerRetry ==
    /\ [](/\ rq_pc \in {"send", "sleep"} => Len(diag) = Len(outcomes)
          /\ rq_pc = "done" => Len(diag) = Len(outcomes) - 1
          /\ \A k \in 1..Len(diag) :
                diag[k] = [attempt |-> k, error |-> ClassifiedError(outcomes[k])])
    /\ [][diag' # diag =>
             (Len(diag') = Len(diag) + 1 /\ rq_pc' = "sleep" /\ result' = None)]_vars
    /\ [][(rq_pc = "send" /\ rq_pc' = "sleep") => Len(diag') = Len(diag) + 1]_vars
    /\ [][(rq_pc = "send" /\ rq_pc' = "done") => diag' = diag]_vars
    /\ [][Len(outcomes') > Len(outcomes) =>
             ((rq_pc' = "sleep") <=>
                 (/\ RetryableFailure(outcomes'[Len(outcomes')])
                  /\ Len(outcomes) < config.max_retries))]_vars

C31_Witness ==
    /\ rq_pc = "done"
    /\ Len(outcomes) = 3
    /\ outcomes[1] = TransportErr("timeout")
    /\ Is503(outcomes[2])
    /\ result.tag = "Err"
    /\ Len(diag) = 2
    /\ diag[1] = [attempt |-> 1, error |-> HttpError("timeout")]
    /\ diag[2].attempt = 2 /\ diag[2].error.variant = "ServerError"

\* C33: the error a unary request returns is that of its last attempt, by
\* the status and body of the response or by the transport error, and not
\* that of an earlier attempt: 503 and then 404 returns ModelNotFound.
C33_LastErrorReturned ==
    /\ (rq_pc = "done" /\ result.tag = "Err") =>
          result.val = ClassifiedError(outcomes[Len(outcomes)])
    /\ (Len(outcomes) = 2 /\ Is503(outcomes[1])
           /\ outcomes[2].kind = "response" /\ outcomes[2].status = 404) =>
          (rq_pc = "done" /\ result.tag = "Err" /\ result.val.variant = "ModelNotFound"
             /\ result.val.message = ClassifiedError(outcomes[2]).message)

C33_Witness ==
    /\ rq_pc = "done"
    /\ Len(outcomes) = 2
    /\ outcomes[1] = Response(503, [ok |-> TRUE, text |-> "overloaded"])
    /\ outcomes[2] = Response(404, [ok |-> FALSE, text |-> ""])
    /\ result = Err(ModelNotFound("Unknown error"))

-----------------------------------------------------------------------------
(* The buffer of the download-progress stream between chunks *)

HasDelimiter(t) == \E i \in 1..(Len(t) - 1) : t[i] = NL /\ t[i + 1] = NL

\* C32: whenever the download-progress stream waits for the next chunk of
\* the body, its buffer has no two-newline delimiter in it: every record
\* that was complete in the text received has been taken out, and the
\* buffer is the text after the last delimiter, at most one partial record.
C32_NoCompleteRecordWhileWaiting ==
    dl_pc = "recv" =>
        /\ ~HasDelimiter(buffer)
        /\ records \o <<buffer>> = CutAt(received, <<NL, NL>>, 1, <<>>)

C32_Witness ==
    /\ dl_pc = "recv"
    /\ dl_pos = Len(dl_wire) /\ received = dl_wire
    /\ Len(records) = 1
    /\ buffer = DataPrefix \o Progress \o <<NL>>
    /\ Len(yielded) = 1

\* A chunk that brought two complete records: both leave the buffer before
\* the stream waits again
C32_TwoRecordsInOneChunk ==
    /\ dl_pc = "scan"
    /\ records = <<>>
    /\ Len(CutAt(buffer, <<NL, NL>>, 1, <<>>)) = 3

-----------------------------------------------------------------------------
(* The chat stream: one item for each thing the transport hands over *)

\* The items that are chunks come first
OkItems ==
    LET oks == SelectSeq(items, LAMBDA it : it.tag = "Ok") IN
    [k \in 1..Len(oks) |-> oks[k].val]

\* The offset in the body at which the k-th chunk item ends
RECURSIVE ChunkEnd(_)
ChunkEnd(k) == IF k = 0 THEN 0 ELSE ChunkEnd(k - 1) + Len(OkItems[k].raw)

\* C34: the chat stream yields one item for each transport chunk, in the
\* order of the chunks: the k-th item holds the text of the k-th chunk and
\* the parse of the last data: line of that text before a [DONE] line (so
\* one item for a chunk of several data: lines); a chunk of whitespace
\* gives an item that is not terminal and has no payload; a transport error
\* gives one Err item, after the items of the chunks.
C34_OneItemPerChunk ==
    /\ [](/\ \A k \in 1..Len(OkItems) :
                /\ items[k] = Ok(OkItems[k])
                /\ OkItems[k].raw # <<>>
                /\ OkItems[k].raw =
                      from_utf8_lossy(SubSeq(ch_wire, ChunkEnd(k - 1) + 1, ChunkEnd(k)))
                /\ OkItems[k].chunk = ParsedAlone(OkItems[k].raw).chunk
                /\ OkItems[k].is_done = ParsedAlone(OkItems[k].raw).is_done
                /\ IsBlank(OkItems[k].raw) =>
                      (OkItems[k].chunk = None /\ ~OkItems[k].is_done)
          /\ ChunkEnd(Len(OkItems)) = ch_pos
          /\ Len(items) <= Len(OkItems) + 1
          /\ Len(items) = Len(OkItems) + 1 =>
                (/\ items[Len(items)].tag = "Err"
                 /\ items[Len(items)].val.variant = "HttpError"
                 /\ ch_tr = "ended"))
    /\ [][Len(items') \in {Len(items), Len(items) + 1}]_vars
    /\ [][(ch_pos' > ch_pos) => Len(items') = Len(items) + 1]_vars
    /\ [][(ch_pos' = ch_pos /\ Len(items') = Len(items) + 1) =>
             (items'[Len(items')].tag = "Err" /\ ch_tr = "live" /\ ch_tr' = "ended")]_vars

C34_Witness ==
    /\ ch_wire = DataLine(Hel) \o DataLine(Lo) \o Blank
    /\ ch_pos = Len(ch_wire)
    /\ Len(items) = 2
    /\ items[1] = Ok(StreamChunk(ch_wire, ParseChatChunk(Lo), FALSE))
    /\ items[2] = Err(HttpError("reset"))

\* A chunk of whitespace and its item
C34_BlankChunk ==
    /\ Len(items) = 1
    /\ items[1] = Ok(StreamChunk(<<" ", NL, NL>>, None, FALSE))

-----------------------------------------------------------------------------
(* The download-progress stream: chunks cut between characters *)

\* An offset of a body that is not inside a character
OnCharBoundary(wire, p) ==
    p = 0 \/ p = Len(wire) \/ ~(wire[p] = "xC3" /\ wire[p + 1] = "xA9")

\* The body up to the offset the transport has reached
Delivered == SubSeq(dl_wire, 1, dl_pos)

\* C35: a chunk that begins and ends between characters is kept whole, so
\* that with every chunk cut between characters the text kept is the text
\* delivered; and then, however the text was cut, between two newlines of a
\* delimiter too, the records taken out are those of the text delivered
\* taken as one piece, and at the end of the body those of the whole body.
C35_ChunkingInvariance ==
    /\ [][(dl_pos' > dl_pos /\ OnCharBoundary(dl_wire, dl_pos)
              /\ OnCharBoundary(dl_wire, dl_pos')) =>
             (received' = received \o DownloadChunk /\ buffer' = buffer \o DownloadChunk)]_vars
    /\ []((received = Delivered /\ dl_pc \in {"recv", "done"}) =>
             /\ records = AllButLast(CutAt(Delivered, <<NL, NL>>, 1, <<>>))
             /\ dl_pos = Len(dl_wire) =>
                   records = AllButLast(CutAt(dl_wire, <<NL, NL>>, 1, <<>>)))
    /\ [][(received = Delivered /\ dl_pos' > dl_pos /\ received' = Delivered'
              /\ HasDelimiter(buffer \o DownloadChunk)) => dl_pc' = "scan"]_vars

C35_Witness ==
    /\ dl_wire = DataPrefix \o Accent \o <<NL, NL>> \o DataPrefix \o Progress \o <<NL, NL>>
    /\ dl_pc = "recv"
    /\ dl_pos = Len(dl_wire) - 1
    /\ received = Delivered
    /\ records = <<DataPrefix \o Accent>>
    /\ buffer = DataPrefix \o Progress \o <<NL>>

\* The end of a body whose chunks were all kept
C35_WholeBodyKept ==
    /\ dl_pc = "done" /\ dl_pos = Len(dl_wire) /\ received = dl_wire
    /\ Len(records) = 2
    /\ records[1] = DataPrefix \o Accent

-----------------------------------------------------------------------------
(* The end of a unary request *)

\* C36: when the send of every attempt completes, with a response or with
\* an error, and every sleep ends, make_request returns, whatever
\* max_retries is and whatever the outcomes are.
C36_EventuallyReturns == <>(rq_pc = "done" /\ result # None)

C36_Witness ==
    /\ rq_pc = "done" /\ result.tag = "Err"
    /\ config.max_retries = MaxRetriesBound
    /\ Len(outcomes) = MaxRetriesBound + 1
    /\ Len(sleeps) = MaxRetriesBound

-----------------------------------------------------------------------------
(* The headers of the requests of a client *)

HasHeader(request, name) == \E h \in request.headers : h.name = name

\* C37: the request of a download-progress stream carries the Accept and
\* Cache-Control headers of a stream but no Authorization header, with a
\* client that has an api_key too; every request of make_request and of
\* make_request_stream of a client that has an api_key carries the bearer
\* Authorization header of that key.
C37_DownloadStreamUnauthenticated ==
    \A i \in 1..Len(requests) :
        /\ requests[i].by = "into_stream" =>
              /\ [name |-> "accept", value |-> <<"text/event-stream">>] \in requests[i].headers
              /\ [name |-> "cache-control", value |-> <<"no-cache">>] \in requests[i].headers
              /\ ~HasHeader(requests[i], "authorization")
        /\ (requests[i].by \in {"make_request", "make_request_stream"}
               /\ client.api_key # None) =>
              [name |-> "authorization", value |-> <<"Bearer", client.api_key.val>>]
                  \in requests[i].headers
        /\ (requests[i].by \in {"make_request", "make_request_stream"}
               /\ client.api_key = None) =>
              ~HasHeader(requests[i], "authorization")

C37_Witness ==
    /\ client.api_key = [tag |-> "Some", val |-> "k1"]
    /\ Len(requests) = 3
    /\ requests[1].by = "make_request" /\ HasHeader(requests[1], "authorization")
    /\ requests[2].by = "make_request_stream" /\ HasHeader(requests[2], "authorization")
    /\ HasHeader(requests[2], "accept")
    /\ requests[3].by = "into_stream" /\ ~HasHeader(requests[3], "authorization")
    /\ HasHeader(requests[3], "accept")

=============================================================================
